---- MODULE Spec2Model ----
(***************************************************************************)
(* Model of kopilot's streaming adapter (source/agent/copilotAgent.ts):    *)
(* streamResponse turns the events a Copilot session pushes to a handler   *)
(* into an async generator of text chunks, through createAsyncQueue, with  *)
(* an idle timer that fails the queue.                                     *)
(*                                                                         *)
(* One behaviour is one streamResponse call with one for-await consumer.   *)
(* Every action is one run-to-completion step of the JavaScript event      *)
(* loop: the handler run of one event, the timer callback, the generator   *)
(* running from one suspension point to the next.                          *)
(***************************************************************************)
EXTENDS Integers, Sequences, FiniteSets, TLC

\* ------------------------------------------------------------------ bounds
MaxEvents == 3        \* events the session emits during one call
MaxSubmits == 2       \* handleSubmit invocations of one run of the controller

\* ------------------------------------------------------------- vocabulary
Undefined == "<undefined>"
\* The text of the n-th event the session emits: every event carries its own text,
\* so a chunk names the event it came from.
TextOf(n) == "t" \o ToString(n)
SendError == "send failed"
UnknownError == "Unknown error"
ErrorTexts == {"boom"}

TimeoutMessage(ms) == "Response timed out after " \o ToString(ms) \o "ms."

Callbacks ==
  {"onEvent", "onUsage", "onReasoning", "onTurnStart", "onTurnEnd", "onIntent"}

ToolEvents ==
  {"tool.execution_start", "tool.execution_complete", "tool.execution_progress"}
ContextEvents ==
  {"session.compaction_start", "session.compaction_complete", "session.truncation"}
SubagentEvents ==
  {"subagent.started", "subagent.completed", "subagent.failed", "subagent.selected"}
HookEvents == {"hook.start", "hook.end"}
SideEvents ==
  {"assistant.usage", "assistant.reasoning_delta", "assistant.reasoning",
   "assistant.turn_start", "assistant.turn_end", "assistant.intent"}
UnknownEvents == {"session.future_event"}
ChunkEvents == {"assistant.message_delta", "assistant.message"}
TerminalEvents == {"session.idle", "session.error"}

NoTimer == -1

\* options.idleTimeoutMs as the caller may give it, in clock ticks: unset, or a window
Timeouts == {0, 2}

\* The options of a call: the default `options = {}`, or every callback given,
\* without and with an idle timeout.
OptionChoices ==
  {[idleTimeoutMs |-> 0, callbacks |-> {}]}
  \cup [idleTimeoutMs : Timeouts, callbacks : {Callbacks}]

VARIABLES
  options,    \* StreamResponseOptions: idleTimeoutMs and the callbacks given
  pc,         \* where the generator of streamResponse stands
  queue,      \* createAsyncQueue: items, waiters, closed, resolved promises
  idleTimer,  \* NoTimer, or the ticks left before the pending timer fires
  sawDelta,   \* the flag of streamResponse
  subscribed, \* the handler is registered with session.on
  yielded,    \* chunks the consumer was given, in order
  result,     \* how the call ended: "ok", the error message, "break", "throw"
  effects,    \* what the handler did in the step just taken, in order
  log,        \* chunk and terminal events the handler received, and timer expiries
  unheard,    \* when events were emitted with no handler registered: "during", "after" the call
  nEmitted,   \* events the session emitted since send was called
  quiet,      \* ticks since the last event was received (or the timer first armed)
  sendState   \* "none", "pending", "resolved", "rejected"

\* The chat controller (hooks/useChat) and its host
VARIABLES
  messages,    \* useState<Message[]>: the transcript
  isStreaming, \* useState(false): the streaming flag
  cancelRef,   \* useRef(false): the cancellation flag
  isReady,     \* the session exists and is usable (isReady && session)
  copilotError, \* the message of the provider's error, or Undefined
  input,       \* the host's input field, which callbacks.setInput writes
  submits,     \* the handleSubmit invocations made so far, each with its locals
  sent,        \* the prompts given to streamResponse (session.send), in order
  dispatched,  \* the values given to callbacks.handleCommand, in order
  applied,     \* the calls made on the host and on the session, in order
  nextId       \* createId: the ids handed out so far

\* A function of the registry or of the picker called on its own, and the
\* latest call of applyPickerSelection
VARIABLES
  invoked,     \* the function called and its arguments, or NotInvoked
  returned     \* what the call returned, or NotInvoked

\* The picker (hooks/usePicker) and what the application hands it
VARIABLES
  pickerContext,     \* useState<PickerContext | null>: kind "none" for null
  pickerItems,       \* useState<PickerItem[]>
  pickerIndex,       \* useState(0), counted from 0 as in the source
  suppressPickerRef, \* useRef<string | null>: <<>> for null, <<s>> for s
  isModelPickerOpen, \* the model picker of the application is shown
  fileIndexHook      \* hooks/useFileIndex: fileIndex, isIndexing, fileIndexError, promise

\* The input history (hooks/useInputHistory)
VARIABLES
  history,         \* useState<string[]>([]): the entries, newest at the end
  historyIndex,    \* useState(-1): -1, or the 0-based index of the entry shown
  pendingInputRef  \* useRef(''): the input saved when navigation started

\* The permission bridge of CopilotProvider (agent/copilotContext) and the
\* requests of the SDK
VARIABLES
  pendingPermission,     \* useState<PermissionRequest | null>: 0 for null
  permissionResolverRef, \* useRef: the request whose resolve it holds, 0 for null
  permissions            \* the promise of each request issued: "pending", or the result

adapterVars ==
  <<options, pc, queue, idleTimer, sawDelta, subscribed, yielded, result,
    effects, log, unheard, nEmitted, quiet, sendState>>

chatVars ==
  <<messages, isStreaming, cancelRef, isReady, copilotError, input, submits,
    sent, dispatched, applied, nextId>>

hookVars ==
  <<pickerContext, pickerItems, pickerIndex, suppressPickerRef,
    isModelPickerOpen, fileIndexHook>>

historyVars == <<history, historyIndex, pendingInputRef>>

bridgeVars == <<pendingPermission, permissionResolverRef, permissions>>

pureVars == <<invoked, returned, hookVars, historyVars, bridgeVars>>

vars == <<adapterVars, chatVars, pureVars>>

\* No pure function has been called on its own
NotInvoked == [fn |-> "none"]

\* pickerContext of a closed picker
NoContext == [kind |-> "none"]

\* useFileIndex before ensureFileIndex is first called
NoFileIndex ==
  [fileIndex |-> <<>>, isIndexing |-> FALSE, fileIndexError |-> FALSE,
   promise |-> FALSE]

NoCall ==
  /\ invoked = NotInvoked
  /\ returned = NotInvoked
  /\ pickerContext = NoContext
  /\ pickerItems = <<>>
  /\ pickerIndex = 0
  /\ suppressPickerRef = <<>>
  /\ isModelPickerOpen = FALSE
  /\ fileIndexHook = NoFileIndex
  /\ history = <<>>
  /\ historyIndex = -1
  /\ pendingInputRef = <<>>
  /\ pendingPermission = 0
  /\ permissionResolverRef = 0
  /\ permissions = <<>>

\* The controller as constructed, with no session activity
ChatIdle ==
  /\ messages = <<>>
  /\ isStreaming = FALSE
  /\ cancelRef = FALSE
  /\ input = <<>>
  /\ submits = <<>>
  /\ sent = <<>>
  /\ dispatched = <<>>
  /\ applied = <<>>
  /\ nextId = 0

\* ------------------------------------------------------- createAsyncQueue
DataItem(v) == [type |-> "data", value |-> v]
DoneItem == [type |-> "done", value |-> ""]
ErrorItem(m) == [type |-> "error", value |-> m]

EmptyQueue == [items |-> <<>>, waiters |-> 0, closed |-> FALSE, resolved |-> <<>>]

\* Mutant: a buffered item is put in front of the buffer
Push_Unordered(q, item) ==
  IF q.closed THEN q
  ELSE LET q1 == IF item.type \in {"done", "error"}
                 THEN [q EXCEPT !.closed = TRUE] ELSE q
       IN IF q1.waiters > 0
          THEN [q1 EXCEPT !.waiters = @ - 1, !.resolved = Append(@, item)]
          ELSE [q1 EXCEPT !.items = <<item>> \o @]

\* Mutant: only done closes the queue
Push_ErrorStaysOpen(q, item) ==
  IF q.closed THEN q
  ELSE LET q1 == IF item.type = "done" THEN [q EXCEPT !.closed = TRUE] ELSE q
       IN IF q1.waiters > 0
          THEN [q1 EXCEPT !.waiters = @ - 1, !.resolved = Append(@, item)]
          ELSE [q1 EXCEPT !.items = Append(@, item)]

\* Mutant: a closed queue still takes items
Push_WhenClosed(q, item) ==
  LET q1 == IF item.type \in {"done", "error"}
            THEN [q EXCEPT !.closed = TRUE] ELSE q
  IN IF q1.waiters > 0
     THEN [q1 EXCEPT !.waiters = @ - 1, !.resolved = Append(@, item)]
     ELSE [q1 EXCEPT !.items = Append(@, item)]

\* push: dropped when closed; done/error close; a waiter gets the item, else it is buffered
Push(q, item) ==
  IF q.closed THEN q
  ELSE LET q1 == IF item.type \in {"done", "error"}
                 THEN [q EXCEPT !.closed = TRUE] ELSE q
       IN IF q1.waiters > 0
          THEN [q1 EXCEPT !.waiters = @ - 1, !.resolved = Append(@, item)]
          ELSE [q1 EXCEPT !.items = Append(@, item)]

\* Mutant: next hands out the newest buffered item
QueueNext_Newest(q) ==
  IF Len(q.items) > 0
  THEN [q EXCEPT !.items = SubSeq(@, 1, Len(@) - 1),
                 !.resolved = Append(@, q.items[Len(q.items)])]
  ELSE [q EXCEPT !.waiters = @ + 1]

\* next: the promise resolves with the first buffered item, else a waiter is registered
QueueNext(q) ==
  IF Len(q.items) > 0
  THEN [q EXCEPT !.items = Tail(@), !.resolved = Append(@, Head(q.items))]
  ELSE [q EXCEPT !.waiters = @ + 1]

\* ------------------------------------------------- the handler's closure
\* The handler works on s = [queue, idleTimer, sawDelta, effects].
Note(s, what) == [s EXCEPT !.effects = Append(@, what)]

\* options.onX?.(...)
Call(s, cb) == IF cb \in options.callbacks THEN Note(s, cb) ELSE s

PushData(s, v) == Note([s EXCEPT !.queue = Push(@, DataItem(v))], "pushData")
Close(s) == Note([s EXCEPT !.queue = Push(@, DoneItem)], "close")
Fail(s, m) == Note([s EXCEPT !.queue = Push(@, ErrorItem(m))], "fail")

\* Mutant: a pending timer is left to run instead of being cleared and re-armed
ResetTimer_KeepPending(s) ==
  Note(IF options.idleTimeoutMs # 0 /\ s.idleTimer = NoTimer
       THEN [s EXCEPT !.idleTimer = options.idleTimeoutMs]
       ELSE s,
       "resetTimer")

\* resetTimer: with a truthy idleTimeoutMs, clear the pending timer and arm a new one
ResetTimer(s) ==
  Note(IF options.idleTimeoutMs # 0
       THEN [s EXCEPT !.idleTimer = options.idleTimeoutMs]
       ELSE s,
       "resetTimer")

\* x ?? d
Coalesce(x, d) == IF x = Undefined THEN d ELSE x

OnDelta(s, ev) ==
  ResetTimer(PushData([s EXCEPT !.sawDelta = TRUE], Coalesce(ev.content, "")))

\* Mutant: the final message is enqueued whatever sawDelta says
OnMessage_Always(s, ev) ==
  ResetTimer(IF ev.content # Undefined THEN PushData(s, ev.content) ELSE s)

OnMessage(s, ev) ==
  ResetTimer(IF ~s.sawDelta /\ ev.content # Undefined
             THEN PushData(s, ev.content)
             ELSE s)

\* Mutant: a side event is handed to its callback without re-arming the timer
OnSide_NoRearm(s, ev) ==
  CASE ev.type = "assistant.usage" -> Call(s, "onUsage")
    [] ev.type = "assistant.reasoning_delta" -> Call(s, "onReasoning")
    [] ev.type = "assistant.reasoning" -> s
    [] ev.type = "assistant.turn_start" -> Call(s, "onTurnStart")
    [] ev.type = "assistant.turn_end" -> Call(s, "onTurnEnd")
    [] ev.type = "assistant.intent" -> Call(s, "onIntent")

OnSide(s, ev) ==
  CASE ev.type = "assistant.usage" -> ResetTimer(Call(s, "onUsage"))
    [] ev.type = "assistant.reasoning_delta" -> ResetTimer(Call(s, "onReasoning"))
    [] ev.type = "assistant.reasoning" -> ResetTimer(s)
    [] ev.type = "assistant.turn_start" -> ResetTimer(Call(s, "onTurnStart"))
    [] ev.type = "assistant.turn_end" -> ResetTimer(Call(s, "onTurnEnd"))
    [] ev.type = "assistant.intent" -> ResetTimer(Call(s, "onIntent"))

OnTerminal(s, ev) ==
  IF ev.type = "session.idle"
  THEN Close(s)
  ELSE Fail(s, Coalesce(ev.message, UnknownError))

Dispatch(s, ev) ==
  CASE ev.type = "assistant.message_delta" -> OnDelta(s, ev)
    [] ev.type = "assistant.message" -> OnMessage(s, ev)
    [] ev.type \in SideEvents -> OnSide(s, ev)
    [] ev.type \in ToolEvents \cup ContextEvents \cup SubagentEvents \cup HookEvents ->
         ResetTimer(s)
    [] ev.type \in TerminalEvents -> OnTerminal(s, ev)
    [] OTHER -> ResetTimer(s)

\* Mutant: onEvent is called after the switch
Handler_EventLast(s, ev) == Call(Dispatch(s, ev), "onEvent")

\* session.on(event => { options.onEvent?.(event); switch (event.type) ... })
Handler(s, ev) == Dispatch(Call(s, "onEvent"), ev)

\* ------------------------------------------------------------ environment
\* opens: the event is the first one of a new logical message (a new data.messageId)
Event(t, o, c, e) == [type |-> t, opens |-> o, content |-> c, message |-> e]

Events ==
  {Event(t, m, c, Undefined) :
     t \in ChunkEvents, m \in BOOLEAN, c \in {TextOf(nEmitted + 1), Undefined}}
  \cup {Event(t, FALSE, Undefined, Undefined) :
     t \in SideEvents \cup ToolEvents \cup ContextEvents \cup SubagentEvents
          \cup HookEvents \cup UnknownEvents \cup {"session.idle"}}
  \cup {Event("session.error", FALSE, Undefined, e) : e \in ErrorTexts \cup {Undefined}}

ChunkLog == SelectSeq(log, LAMBDA r : r.type \in ChunkEvents)

\* The session sends the events of one logical message together, its deltas
\* before its final message: the first chunk event of the call opens a message,
\* and so does the one that follows a final message.
InMessageOrder(ev) ==
  ev.type \in ChunkEvents =>
    IF ChunkLog = <<>> \/ ChunkLog[Len(ChunkLog)].type = "assistant.message"
    THEN ev.opens
    ELSE TRUE

Closure == [queue |-> queue, idleTimer |-> idleTimer, sawDelta |-> sawDelta,
            effects |-> <<>>]

Logged(ev) == ev.type \in ChunkEvents \cup TerminalEvents

Ended == pc \in {"done", "failed", "returned"}

\* The promise the generator awaits has resolved: its continuation is a microtask,
\* which runs before the event loop turns to a timer.
MicrotaskPending == pc = "awaitNext" /\ Len(queue.resolved) > 0

\* ------------------------------------------------------------------ state
Init ==
  /\ options \in OptionChoices
  /\ pc = "suspendedStart"
  /\ queue = EmptyQueue
  /\ idleTimer = NoTimer
  /\ sawDelta = FALSE
  /\ subscribed = FALSE
  /\ yielded = <<>>
  /\ result = "none"
  /\ effects = <<>>
  /\ log = <<>>
  /\ unheard = {}
  /\ nEmitted = 0
  /\ quiet = 0
  /\ sendState = "none"
  /\ ChatIdle
  /\ NoCall
  /\ isReady = TRUE
  /\ copilotError = Undefined

\* Mutant: the finally block does not clear the timer
Finally_TimerLeft(end, res) ==
  /\ UNCHANGED idleTimer
  /\ subscribed' = FALSE
  /\ pc' = end
  /\ result' = res

\* Mutant: the finally block does not unsubscribe
Finally_StillSubscribed(end, res) ==
  /\ idleTimer' = NoTimer
  /\ UNCHANGED subscribed
  /\ pc' = end
  /\ result' = res

\* finally { if (idleTimer) clearTimeout(idleTimer); unsubscribe(); }
Finally(end, res) ==
  /\ idleTimer' = NoTimer
  /\ subscribed' = FALSE
  /\ pc' = end
  /\ result' = res

\* Mutant: send is called before the handler is registered
Start_SendFirst ==
  /\ pc = "suspendedStart"
  /\ queue' = EmptyQueue
  /\ idleTimer' = ResetTimer(Closure).idleTimer
  /\ sawDelta' = FALSE
  /\ subscribed' = FALSE
  /\ sendState' = "pending"
  /\ pc' = "sending"
  /\ quiet' = 0
  /\ effects' = <<>>
  /\ UNCHANGED <<options, yielded, result, log, unheard, nEmitted>>

\* The consumer's first next(): the body runs to `await session.send(payload)`:
\* createAsyncQueue, resetTimer(), session.on(handler), session.send(payload).
Start ==
  /\ pc = "suspendedStart"
  /\ queue' = EmptyQueue
  /\ idleTimer' = ResetTimer(Closure).idleTimer
  /\ sawDelta' = FALSE
  /\ subscribed' = TRUE
  /\ sendState' = "pending"
  /\ pc' = "sending"
  /\ quiet' = 0
  /\ effects' = <<>>
  /\ UNCHANGED <<options, yielded, result, log, unheard, nEmitted>>

\* session.send resolves: the for-await loop starts queue.iterate(), which calls next()
SendResolves ==
  /\ pc = "sending"
  /\ sendState' = "resolved"
  /\ queue' = QueueNext(queue)
  /\ pc' = "awaitNext"
  /\ effects' = <<>>
  /\ UNCHANGED <<options, idleTimer, sawDelta, subscribed, yielded, result,
                 log, unheard, nEmitted, quiet>>

\* Mutant: the rejection of send is swallowed and the queue is iterated
SendRejects_Swallowed ==
  /\ pc = "sending"
  /\ sendState' = "rejected"
  /\ queue' = QueueNext(queue)
  /\ pc' = "awaitNext"
  /\ effects' = <<>>
  /\ UNCHANGED <<options, idleTimer, sawDelta, subscribed, yielded, result,
                 log, unheard, nEmitted, quiet>>

\* session.send rejects: the await throws and the finally block runs
SendRejects ==
  /\ pc = "sending"
  /\ sendState' = "rejected"
  /\ Finally("failed", SendError)
  /\ effects' = <<>>
  /\ UNCHANGED <<options, queue, sawDelta, yielded, log, unheard, nEmitted,
                 quiet>>

\* The promise of next() has resolved: iterate() yields the value, throws the
\* error or ends, and streamResponse yields the chunk or leaves through finally.
Resume ==
  /\ pc = "awaitNext"
  /\ Len(queue.resolved) > 0
  /\ LET item == Head(queue.resolved) IN
       /\ queue' = [queue EXCEPT !.resolved = Tail(@)]
       /\ CASE item.type = "data" ->
                 /\ yielded' = Append(yielded, item.value)
                 /\ pc' = "suspendedYield"
                 /\ UNCHANGED <<idleTimer, subscribed, result>>
            [] item.type = "error" ->
                 /\ Finally("failed", item.value)
                 /\ UNCHANGED yielded
            [] OTHER ->
                 /\ Finally("done", "ok")
                 /\ UNCHANGED yielded
  /\ effects' = <<>>
  /\ UNCHANGED <<options, sawDelta, log, unheard, nEmitted, quiet, sendState>>

\* The consumer asks for the next chunk: the loop of iterate() calls next() again
ConsumerPull ==
  /\ pc = "suspendedYield"
  /\ queue' = QueueNext(queue)
  /\ pc' = "awaitNext"
  /\ effects' = <<>>
  /\ UNCHANGED <<options, idleTimer, sawDelta, subscribed, yielded, result,
                 log, unheard, nEmitted, quiet, sendState>>

\* The consumer leaves its for-await loop while it holds a chunk, by break/return
\* or by throwing: the loop calls return() on the generator, which ends iterate()
\* and runs the finally block.
ConsumerLeaves ==
  /\ pc = "suspendedYield"
  /\ \E why \in {"break", "throw"} : Finally("returned", why)
  /\ effects' = <<>>
  /\ UNCHANGED <<options, queue, sawDelta, yielded, log, unheard, nEmitted,
                 quiet, sendState>>

\* The session emits an event; the handler runs if it is (still) registered.
Emit(ev) ==
  /\ sendState # "none"
  /\ nEmitted < MaxEvents
  /\ InMessageOrder(ev)
  /\ nEmitted' = nEmitted + 1
  /\ IF subscribed
     THEN LET s == Handler(Closure, ev) IN
            /\ queue' = s.queue
            /\ idleTimer' = s.idleTimer
            /\ sawDelta' = s.sawDelta
            /\ effects' = s.effects
            /\ log' = IF Logged(ev) THEN Append(log, ev) ELSE log
            /\ quiet' = 0
            /\ UNCHANGED unheard
     ELSE /\ effects' = <<>>
          /\ unheard' = unheard \cup {IF Ended THEN "after" ELSE "during"}
          /\ UNCHANGED <<queue, idleTimer, sawDelta, log, quiet>>
  /\ UNCHANGED <<options, pc, subscribed, yielded, result, sendState>>

\* setTimeout(() => queue.fail(new Error(`Response timed out after ...ms.`)), ms)
TimerFire ==
  /\ idleTimer = 0
  /\ ~MicrotaskPending
  /\ queue' = Push(queue, ErrorItem(TimeoutMessage(options.idleTimeoutMs)))
  /\ idleTimer' = NoTimer
  /\ log' = Append(log, Event("timeout", FALSE, Undefined,
                                TimeoutMessage(options.idleTimeoutMs)))
  /\ effects' = <<>>
  /\ UNCHANGED <<options, pc, sawDelta, subscribed, yielded, result, unheard,
                 nEmitted, quiet, sendState>>

\* One unit of time passes while a timer is pending and not yet due.
Tick ==
  /\ idleTimer > 0
  /\ ~MicrotaskPending
  /\ idleTimer' = idleTimer - 1
  /\ quiet' = quiet + 1
  /\ effects' = <<>>
  /\ UNCHANGED <<options, pc, queue, sawDelta, subscribed, yielded, result,
                 log, unheard, nEmitted, sendState>>

\* One streamResponse call with an arbitrary consumer; the controller is not involved
Next ==
  \/ Start /\ UNCHANGED <<chatVars, pureVars>>
  \/ SendResolves /\ UNCHANGED <<chatVars, pureVars>>
  \/ SendRejects /\ UNCHANGED <<chatVars, pureVars>>
  \/ Resume /\ UNCHANGED <<chatVars, pureVars>>
  \/ ConsumerPull /\ UNCHANGED <<chatVars, pureVars>>
  \/ ConsumerLeaves /\ UNCHANGED <<chatVars, pureVars>>
  \/ \E ev \in Events : Emit(ev) /\ UNCHANGED <<chatVars, pureVars>>
  \/ TimerFire /\ UNCHANGED <<chatVars, pureVars>>
  \/ Tick /\ UNCHANGED <<chatVars, pureVars>>

Spec == Init /\ [][Next]_vars

\* ======================================================================
\* The chat controller: hooks/useChat, with the command registry and the
\* mention resolver it calls
\* ======================================================================

\* ---------------------------------------------------------------- strings
\* A string the code inspects character by character is a sequence of
\* one-character strings; Join gives the text it stands for.
IsSpace(c) == c \in {" ", "\t", "\n"}

RECURSIVE TrimStart(_)
TrimStart(t) == IF t # <<>> /\ IsSpace(Head(t)) THEN TrimStart(Tail(t)) ELSE t

RECURSIVE TrimEnd(_)
TrimEnd(t) ==
  IF t # <<>> /\ IsSpace(t[Len(t)]) THEN TrimEnd(SubSeq(t, 1, Len(t) - 1)) ELSE t

\* String.prototype.trim
Trim(t) == TrimEnd(TrimStart(t))

\* String.prototype.startsWith
StartsWith(t, p) == Len(t) >= Len(p) /\ SubSeq(t, 1, Len(p)) = p

\* String.prototype.slice(n)
Slice(t, n) == SubSeq(t, n + 1, Len(t))

RECURSIVE Join(_)
Join(t) == IF t = <<>> THEN "" ELSE Head(t) \o Join(Tail(t))

UpperCase ==
  <<"A", "B", "C", "D", "E", "F", "G", "H", "I", "J", "K", "L", "M",
    "N", "O", "P", "Q", "R", "S", "T", "U", "V", "W", "X", "Y", "Z">>
LowerCase ==
  <<"a", "b", "c", "d", "e", "f", "g", "h", "i", "j", "k", "l", "m",
    "n", "o", "p", "q", "r", "s", "t", "u", "v", "w", "x", "y", "z">>

\* String.prototype.toLowerCase
ToLowerCase(t) ==
  [i \in DOMAIN t |->
     IF \E k \in DOMAIN UpperCase : UpperCase[k] = t[i]
     THEN LowerCase[CHOOSE k \in DOMAIN UpperCase : UpperCase[k] = t[i]]
     ELSE t[i]]

\* ------------------------------------------------------- command registry
\* The loop of tokenizeArgs: quote is the open quote character or Undefined
RECURSIVE Tokenize(_, _, _, _)
Tokenize(chars, tokens, current, quote) ==
  IF chars = <<>>
  THEN IF current # <<>> THEN Append(tokens, current) ELSE tokens
  ELSE LET char == Head(chars)
           rest == Tail(chars)
       IN IF quote # Undefined
          THEN IF char = quote
               THEN Tokenize(rest, tokens, current, Undefined)
               ELSE Tokenize(rest, tokens, Append(current, char), quote)
          ELSE IF char \in {"\"", "'"}
               THEN Tokenize(rest, tokens, current, char)
               ELSE IF IsSpace(char)
                    THEN Tokenize(rest,
                                  IF current # <<>> THEN Append(tokens, current)
                                                    ELSE tokens,
                                  <<>>, Undefined)
                    ELSE Tokenize(rest, tokens, Append(current, char), Undefined)

TokenizeArgs(t) == Tokenize(Trim(t), <<>>, <<>>, Undefined)

\* parseCommand: parsed is FALSE where the code returns null
\* name is the text of the lower-cased first token, args the other tokens
NotParsed == [parsed |-> FALSE, name |-> "", args |-> <<>>]

\* Mutant: the name keeps the case it was typed in
ParseCommand_KeepsCase(t) ==
  LET trimmed == Trim(t) IN
    IF ~StartsWith(trimmed, <<"/">>)
    THEN NotParsed
    ELSE LET tokens == TokenizeArgs(Slice(trimmed, 1)) IN
           IF tokens = <<>>
           THEN NotParsed
           ELSE [parsed |-> TRUE,
                 name |-> Join(Head(tokens)),
                 args |-> Tail(tokens)]

\* Mutant: a slash with no token after it is the command of the empty name
ParseCommand_EmptyName(t) ==
  LET trimmed == Trim(t) IN
    IF ~StartsWith(trimmed, <<"/">>)
    THEN NotParsed
    ELSE LET tokens == TokenizeArgs(Slice(trimmed, 1)) IN
           IF tokens = <<>>
           THEN [parsed |-> TRUE, name |-> "", args |-> <<>>]
           ELSE [parsed |-> TRUE,
                 name |-> Join(ToLowerCase(Head(tokens))),
                 args |-> Tail(tokens)]

ParseCommand(t) ==
  LET trimmed == Trim(t) IN
    IF ~StartsWith(trimmed, <<"/">>)
    THEN NotParsed
    ELSE LET tokens == TokenizeArgs(Slice(trimmed, 1)) IN
           IF tokens = <<>>
           THEN NotParsed
           ELSE [parsed |-> TRUE,
                 name |-> Join(ToLowerCase(Head(tokens))),
                 args |-> Tail(tokens)]

\* CommandOutcome; type "null" where runCommand resolves to null. arg is the
\* model, the session id or the effort of the outcomes that carry one.
Outcome(type, message, kind, arg) ==
  [type |-> type, message |-> message, kind |-> kind, arg |-> arg]

NoOutcome == Outcome("null", Undefined, Undefined, Undefined)
Message(message, kind) == Outcome("message", message, kind, Undefined)

\* COMMANDS, in registry order
COMMANDS ==
  <<[name |-> "help", aliases |-> {"?"}],
    [name |-> "clear", aliases |-> {"cls"}],
    [name |-> "exit", aliases |-> {"quit", "q"}],
    [name |-> "model", aliases |-> {}],
    [name |-> "session", aliases |-> {}],
    [name |-> "reasoning", aliases |-> {}],
    [name |-> "ping", aliases |-> {}],
    [name |-> "status", aliases |-> {}],
    [name |-> "hooks", aliases |-> {}],
    [name |-> "provider", aliases |-> {}],
    [name |-> "mcp", aliases |-> {}],
    [name |-> "agent", aliases |-> {"agents"}]>>

ValidEfforts == {"low", "medium", "high", "xhigh"}

\* The commands whose run awaits a call of the external client
AwaitsClient(name, args) ==
  \/ name \in {"ping", "status"}
  \/ name = "session" /\ Len(args) >= 2 /\ Join(ToLowerCase(args[1])) = "delete"
  \/ name = "session" /\ Len(args) >= 1 /\ Join(ToLowerCase(args[1])) = "list"

\* How one method of the external client behaves when it is called
Behaviours == {"ok", "throws", "rejects", "absent"}

\* context.client: null, or an object whose methods each behave in one way
NoClient == [null |-> TRUE]
Clients ==
  [listSessions : Behaviours, deleteSession : Behaviours, ping : Behaviours,
   getState : Behaviours, getStatus : Behaviours, getAuthStatus : Behaviours]

\* CommandContext: the client, the id of the session or Undefined, the model
Context(client, session) ==
  [client |-> client, session |-> session, currentModel |-> "m1"]

ReadyClient ==
  [listSessions |-> "ok", deleteSession |-> "ok", ping |-> "ok",
   getState |-> "ok", getStatus |-> "ok", getAuthStatus |-> "ok"]

ReadyContext == Context(ReadyClient, "s1")

\* error instanceof Error ? error.message : String(error), for a call that failed
ErrorMessage(method, behaviour) ==
  IF behaviour = "absent"
  THEN "context.client." \o method \o " is not a function"
  ELSE CHOOSE e \in ErrorTexts : TRUE

\* lines.join('\n'), errors.join('\n')
RECURSIVE JoinLines(_)
JoinLines(lines) ==
  IF lines = <<>> THEN ""
  ELSE IF Len(lines) = 1 THEN lines[1]
  ELSE lines[1] \o "\n" \o JoinLines(Tail(lines))

\* How a promise settled: resolved with a value, or rejected with an error
Resolved(value) == [settled |-> "resolved", value |-> value]
Rejected(error) == [settled |-> "rejected", value |-> error]

NotReady == Message("Copilot client is not ready.", "error")

\* The run of /status: getState is called outside any try block, getStatus
\* and getAuthStatus each inside their own
RunStatus(context) ==
  LET client == context.client IN
    IF client = NoClient THEN Resolved(NotReady)
    ELSE IF client.getState = "throws"
    THEN Rejected(ErrorMessage("getState", "throws"))
    ELSE
      LET state == CASE client.getState = "ok" -> "connected"
                     [] client.getState = "absent" -> "unknown"
                     [] client.getState = "rejects" -> "[object Promise]"
          lines == <<"Client state: " \o state>>
                   \o (IF client.getStatus = "ok"
                       THEN <<"Version: 1.0 (protocol: 2)">> ELSE <<>>)
                   \o (IF client.getAuthStatus = "ok"
                       THEN <<"Auth: Authenticated (user)">> ELSE <<>>)
                   \o (IF context.session # Undefined
                       THEN <<"Session: " \o context.session>> ELSE <<>>)
                   \o <<"Model: " \o context.currentModel>>
      IN Resolved(Message(JoinLines(lines), Undefined))

\* Mutant: the level is not checked against the valid ones
RunReasoning_AnyEffort(args) ==
  LET effort == IF Len(args) >= 1 THEN Join(ToLowerCase(args[1])) ELSE "" IN
    IF Len(args) = 0
    THEN Resolved(Message("Usage: /reasoning [low|medium|high|xhigh]", Undefined))
    ELSE Resolved(Outcome("set-reasoning-effort", Undefined, Undefined, effort))

\* The run of /reasoning
RunReasoning(args) ==
  LET effort == IF Len(args) >= 1 THEN Join(ToLowerCase(args[1])) ELSE "" IN
    IF Len(args) = 0
    THEN Resolved(Message("Usage: /reasoning [low|medium|high|xhigh]", Undefined))
    ELSE IF effort \notin ValidEfforts
    THEN Resolved(Message("Invalid reasoning effort: " \o effort
                   \o ". Valid values: low, medium, high, xhigh", "error"))
    ELSE Resolved(Outcome("set-reasoning-effort", Undefined, Undefined, effort))

\* command.run(args, context): the promise it returns, once settled
RunOn(name, args, context) ==
  LET first == IF Len(args) >= 1 THEN Join(args[1]) ELSE Undefined
      action == IF Len(args) >= 1 THEN Join(ToLowerCase(args[1])) ELSE Undefined
      second == IF Len(args) >= 2 THEN Join(args[2]) ELSE Undefined
      client == context.client
  IN
  CASE name = "help" -> Resolved(Message("Commands: ...", Undefined))
    [] name = "clear" -> Resolved(Outcome("clear", Undefined, Undefined, Undefined))
    [] name = "exit" -> Resolved(Outcome("exit", Undefined, Undefined, Undefined))
    [] name = "model" ->
         IF Len(args) = 0
         THEN Resolved(Outcome("open-model-picker", Undefined, Undefined, Undefined))
         ELSE Resolved(Outcome("set-model", Undefined, Undefined, first))
    [] name = "session" ->
         IF Len(args) = 0 \/ action = ""
         THEN Resolved(Message(IF context.session # Undefined
                               THEN "Active session: " \o context.session
                               ELSE "No active session.", Undefined))
         ELSE IF action = "new"
         THEN Resolved(Outcome("new-session", Undefined, Undefined, Undefined))
         ELSE IF action = "resume"
         THEN IF Len(args) < 2 \/ second = ""
              THEN Resolved(Message("Usage: /session resume <session-id>", "error"))
              ELSE Resolved(Outcome("resume-session", Undefined, Undefined, second))
         ELSE IF action = "delete"
         THEN IF Len(args) < 2 \/ second = ""
              THEN Resolved(Message("Usage: /session delete <session-id>", "error"))
              ELSE IF client = NoClient THEN Resolved(NotReady)
              ELSE IF client.deleteSession = "ok"
              THEN Resolved(Message("Deleted session " \o second \o ".", Undefined))
              ELSE Resolved(Message("Failed to delete session: "
                     \o ErrorMessage("deleteSession", client.deleteSession), "error"))
         ELSE IF action = "list"
         THEN IF client = NoClient THEN Resolved(NotReady)
              ELSE IF client.listSessions = "ok"
              THEN Resolved(Message("No sessions found.", Undefined))
              ELSE Resolved(Message("Failed to list sessions: "
                     \o ErrorMessage("listSessions", client.listSessions), "error"))
         ELSE Resolved(Message("Unknown session command: " \o action, "error"))
    [] name = "reasoning" -> RunReasoning(args)
    [] name = "ping" ->
         IF client = NoClient THEN Resolved(NotReady)
         ELSE IF client.ping = "ok"
         THEN Resolved(Message("Server responded at ...", Undefined))
         ELSE Resolved(Message("Ping failed: "
                \o ErrorMessage("ping", client.ping), "error"))
    [] name = "status" -> RunStatus(context)
    [] name = "hooks" -> Resolved(Message("Session Hooks: ...", Undefined))
    [] name = "provider" ->
         Resolved(Message("Using default GitHub Copilot provider. ...", Undefined))
    [] name = "mcp" -> Resolved(Message("No MCP servers configured. ...", Undefined))
    [] name = "agent" -> Resolved(Message("No custom agents configured. ...", Undefined))

\* command.run(args, context), with a client that is ready and answers
Run(name, args) == RunOn(name, args, ReadyContext).value

\* COMMANDS.find(item => item.name === name || item.aliases.includes(name))
Matches(name) ==
  {k \in DOMAIN COMMANDS : COMMANDS[k].name = name \/ name \in COMMANDS[k].aliases}

Min(S) == CHOOSE x \in S : \A y \in S : x <= y

\* runCommand(input, context): the promise it returns, once settled
RunCommandOn(t, context) ==
  LET parsed == ParseCommand(t) IN
    IF ~parsed.parsed
    THEN Resolved(NoOutcome)
    ELSE IF Matches(parsed.name) = {}
    THEN Resolved(Message("Unknown command: /" \o parsed.name \o ". Try /help.", "error"))
    ELSE RunOn(COMMANDS[Min(Matches(parsed.name))].name, parsed.args, context)

\* runCommand(input, context), with a client that is ready and answers
RunCommand(t) == RunCommandOn(t, ReadyContext).value

\* ------------------------------------------------------- mention resolver
\* The first index k >= from with t[k] = c, or 0
RECURSIVE IndexOfFrom(_, _, _)
IndexOfFrom(t, c, from) ==
  IF from > Len(t) THEN 0
  ELSE IF t[from] = c THEN from
  ELSE IndexOfFrom(t, c, from + 1)

\* The last index of the run of non-space characters that starts at from
RECURSIVE RunEnd(_, _)
RunEnd(t, from) ==
  IF from + 1 <= Len(t) /\ ~IsSpace(t[from + 1]) THEN RunEnd(t, from + 1) ELSE from

NoMatch == [found |-> FALSE, raw |-> <<>>, last |-> 0]

\* One attempt of mentionPattern at index i:
\* /(^|\s)@(?:"([^"]+)"|'([^']+)'|([^\s]+))/
MatchAt(t, i) ==
  LET at == IF i = 1 /\ t[1] = "@" THEN 1
            ELSE IF IsSpace(t[i]) /\ i + 1 <= Len(t) /\ t[i + 1] = "@" THEN i + 1
            ELSE 0
      q == at + 1
      Quoted(mark) ==
        LET k == IndexOfFrom(t, mark, q + 1) IN
          IF t[q] = mark /\ k >= q + 2
          THEN [found |-> TRUE, raw |-> SubSeq(t, q + 1, k - 1), last |-> k]
          ELSE NoMatch
  IN IF at = 0 \/ q > Len(t) THEN NoMatch
     ELSE IF Quoted("\"").found THEN Quoted("\"")
     ELSE IF Quoted("'").found THEN Quoted("'")
     ELSE IF ~IsSpace(t[q])
     THEN [found |-> TRUE, raw |-> SubSeq(t, q, RunEnd(t, q)), last |-> RunEnd(t, q)]
     ELSE NoMatch

\* raw.replace(/[),.;:!?]+$/, '')
RECURSIVE Cleaned(_)
Cleaned(raw) ==
  IF raw # <<>> /\ raw[Len(raw)] \in {")", ",", ".", ";", ":", "!", "?"}
  THEN Cleaned(SubSeq(raw, 1, Len(raw) - 1))
  ELSE raw

\* The loop of extractMentions: the pattern is tried from index i on
RECURSIVE MentionsFrom(_, _, _)
MentionsFrom(t, i, mentions) ==
  IF i > Len(t) THEN mentions
  ELSE LET m == MatchAt(t, i) IN
         IF m.found
         THEN MentionsFrom(t, m.last + 1,
                           IF Cleaned(m.raw) # <<>>
                           THEN Append(mentions, Join(Cleaned(m.raw)))
                           ELSE mentions)
         ELSE MentionsFrom(t, i + 1, mentions)

ExtractMentions(t) == MentionsFrom(t, 1, <<>>)

\* What fs.stat finds for a mentioned path
Stats == {"file", "missing"}

\* The same with the regular file over maxBytes and the path that is no file
AllStats == Stats \cup {"directory", "too large"}

MentionError(mention, stat) ==
  CASE stat = "directory" -> "@" \o mention \o " is not a file."
    [] stat = "too large" -> "@" \o mention \o " is too large."
    [] stat = "missing" -> "@" \o mention \o " was not found."

\* Mutant: the first mention that cannot be attached ends the loop
ResolveFileMentions_StopsAtError(mentions, stats) ==
  LET bad == {k \in DOMAIN mentions : stats[k] # "file"}
      upTo == IF bad = {} THEN Len(mentions) ELSE Min(bad)
      ok == {k \in 1..upTo : stats[k] = "file"}
      Pick(S) == SelectSeq([k \in DOMAIN mentions |-> k], LAMBDA k : k \in S)
  IN [attachments |-> [j \in DOMAIN Pick(ok) |-> mentions[Pick(ok)[j]]],
      errors |-> [j \in DOMAIN Pick((1..upTo) \ ok) |->
                    MentionError(mentions[Pick((1..upTo) \ ok)[j]],
                                 stats[Pick((1..upTo) \ ok)[j]])]]

\* resolveFileMentions, stats[k] being what fs.stat finds for the k-th mention
ResolveFileMentions(mentions, stats) ==
  LET ok == {k \in DOMAIN mentions : stats[k] = "file"}
      Pick(S) == SelectSeq([k \in DOMAIN mentions |-> k], LAMBDA k : k \in S)
  IN [attachments |-> [j \in DOMAIN Pick(ok) |-> mentions[Pick(ok)[j]]],
      errors |-> [j \in DOMAIN Pick(DOMAIN mentions \ ok) |->
                    MentionError(mentions[Pick(DOMAIN mentions \ ok)[j]],
                                 stats[Pick(DOMAIN mentions \ ok)[j]])]]


\* ------------------------------------------------------------- transcript
STREAM_DEBOUNCE_MS == 50

\* The time that passes in one step of the clock: a chunk arrives either
\* within the debounce interval of the last flush or after it
TickMs == STREAM_DEBOUNCE_MS

\* A Message; the optional fields a message lacks are Undefined (isStreaming: FALSE)
Msg(id, role, content, kind) ==
  [id |-> id, role |-> role, content |-> content, kind |-> kind,
   isStreaming |-> FALSE, turnPhase |-> Undefined, usage |-> Undefined,
   reasoning |-> Undefined, intent |-> Undefined, attachments |-> <<>>]

\* Mutant: the message is spliced in behind the assistant message
InsertBeforeAssistant_After(prev, assistantId, msg) ==
  LET found == {k \in DOMAIN prev : prev[k].id = assistantId} IN
    IF found = {}
    THEN Append(prev, msg)
    ELSE LET assistantIdx == Min(found) IN
           SubSeq(prev, 1, assistantIdx) \o <<msg>>
             \o SubSeq(prev, assistantIdx + 1, Len(prev))

\* insertBeforeAssistant
InsertBeforeAssistant(prev, assistantId, msg) ==
  LET found == {k \in DOMAIN prev : prev[k].id = assistantId} IN
    IF found = {}
    THEN Append(prev, msg)
    ELSE LET assistantIdx == Min(found) IN
           SubSeq(prev, 1, assistantIdx - 1) \o <<msg>>
             \o SubSeq(prev, assistantIdx, Len(prev))

\* prev.map(msg => msg.id === assistantId ? update(msg) : msg)
MapAssistant(prev, assistantId, Update(_)) ==
  [k \in DOMAIN prev |->
     IF prev[k].id = assistantId THEN Update(prev[k]) ELSE prev[k]]

\* The controller's state as one record c, which the steps of a handler pass on
Chat ==
  [messages |-> messages, isStreaming |-> isStreaming, cancelRef |-> cancelRef,
   input |-> input, submits |-> submits, sent |-> sent,
   dispatched |-> dispatched, applied |-> applied, nextId |-> nextId]

Commit(c) ==
  /\ messages' = c.messages
  /\ isStreaming' = c.isStreaming
  /\ cancelRef' = c.cancelRef
  /\ input' = c.input
  /\ submits' = c.submits
  /\ sent' = c.sent
  /\ dispatched' = c.dispatched
  /\ applied' = c.applied
  /\ nextId' = c.nextId

\* appendSystemMessage(content, kind), the id coming from createId
AppendSystemMessage(c, content, kind) ==
  [c EXCEPT !.nextId = @ + 1,
            !.messages = Append(@, Msg(c.nextId + 1, "system", content, kind))]

\* ------------------------------------------------- the stream of a submit
\* The streamResponse call a submit consumes: the generator's position, its
\* queue, timer, sawDelta flag and subscription.
NoStream ==
  [pc |-> "none", queue |-> EmptyQueue, idleTimer |-> NoTimer,
   sawDelta |-> FALSE, subscribed |-> FALSE]

StreamClosure(st) ==
  [queue |-> st.queue, idleTimer |-> st.idleTimer, sawDelta |-> st.sawDelta,
   effects |-> <<>>]

\* The first next(): createAsyncQueue, resetTimer(), session.on, session.send
StreamStart ==
  [pc |-> "sending", queue |-> EmptyQueue,
   idleTimer |-> ResetTimer(StreamClosure(NoStream)).idleTimer,
   sawDelta |-> FALSE, subscribed |-> TRUE]

\* Mutant: the handler stays subscribed when the call has ended
StreamFinally_StaysSubscribed(st, end) ==
  [st EXCEPT !.pc = end, !.idleTimer = NoTimer]

\* finally { if (idleTimer) clearTimeout(idleTimer); unsubscribe(); }
StreamFinally(st, end) ==
  [st EXCEPT !.pc = end, !.idleTimer = NoTimer, !.subscribed = FALSE]

\* A handleSubmit invocation: its argument, where it stands and its locals.
\* chunks is every chunk its loop was given; end is how it returned.
NewCall(v) ==
  [value |-> v, pc |-> "running", end |-> "none", escaped |-> <<>>,
   outcome |-> NoOutcome, mentions |-> <<>>, assistantId |-> 0,
   chunkBuffer |-> "", sinceFlush |-> 0, chunks |-> "", st |-> NoStream]

Return(c, i, end) ==
  [c EXCEPT !.submits[i].pc = "returned", !.submits[i].end = end]

\* ------------------------------------------------------------ handleEvent
NoNotice == [content |-> Undefined, kind |-> Undefined]

\* The system message handleEvent builds for an event, if any. The event's
\* content stands for the datum it shows (tool or agent name, messages removed);
\* a compaction_complete event with a message is a failed compaction.
NoticeOf(ev) ==
  CASE ev.type = "tool.execution_start" /\ ev.content # Undefined ->
         [content |-> "Calling tool: " \o ev.content, kind |-> "info"]
    [] ev.type = "session.compaction_start" ->
         [content |-> "Compacting context...", kind |-> "info"]
    [] ev.type = "session.compaction_complete" ->
         IF ev.message = Undefined
         THEN [content |-> "Context compacted -- older messages summarized.",
               kind |-> "info"]
         ELSE [content |-> "Context compaction failed: " \o ev.message,
               kind |-> "error"]
    [] ev.type = "session.truncation" ->
         [content |-> "Context truncated (" \o ev.content \o " messages removed).",
          kind |-> "info"]
    [] ev.type = "subagent.started" ->
         [content |-> "Agent started: " \o ev.content, kind |-> "info"]
    [] ev.type = "subagent.completed" ->
         [content |-> "Agent completed: " \o ev.content, kind |-> "info"]
    [] ev.type = "subagent.failed" ->
         [content |-> "Agent failed: " \o ev.content \o " -- " \o ev.message,
          kind |-> "error"]
    [] OTHER -> NoNotice

HandleEvent(c, i, ev) ==
  IF NoticeOf(ev) = NoNotice THEN c
  ELSE [c EXCEPT
          !.nextId = @ + 1,
          !.messages = InsertBeforeAssistant(@, c.submits[i].assistantId,
                         Msg(c.nextId + 1, "system", NoticeOf(ev).content,
                             NoticeOf(ev).kind))]

\* handleUsage, handleReasoning, handleTurnStart, handleTurnEnd, handleIntent
HandleUsage(c, i, usage) ==
  LET Update(msg) == [msg EXCEPT !.usage = usage] IN
    [c EXCEPT !.messages = MapAssistant(@, c.submits[i].assistantId, Update)]

\* Mutant: the piece of reasoning replaces what was there
HandleReasoning_Replaces(c, i, chunk) ==
  LET Update(msg) == [msg EXCEPT !.reasoning = chunk] IN
    [c EXCEPT !.messages = MapAssistant(@, c.submits[i].assistantId, Update)]

HandleReasoning(c, i, chunk) ==
  LET Update(msg) == [msg EXCEPT !.reasoning = Coalesce(@, "") \o chunk] IN
    [c EXCEPT !.messages = MapAssistant(@, c.submits[i].assistantId, Update)]

HandleTurnStart(c, i) ==
  LET Update(msg) == [msg EXCEPT !.turnPhase = "thinking"] IN
    [c EXCEPT !.messages = MapAssistant(@, c.submits[i].assistantId, Update)]

HandleTurnEnd(c, i) ==
  LET Update(msg) == [msg EXCEPT !.turnPhase = Undefined] IN
    [c EXCEPT !.messages = MapAssistant(@, c.submits[i].assistantId, Update)]

HandleIntent(c, i, intent) ==
  LET Update(msg) == [msg EXCEPT !.intent = intent] IN
    [c EXCEPT !.messages = MapAssistant(@, c.submits[i].assistantId, Update)]

\* The callbacks the adapter's handler called for ev, applied in order
RECURSIVE Callback(_, _, _, _)
Callback(c, i, ev, called) ==
  IF called = <<>> THEN c
  ELSE LET cb == Head(called)
           c1 == CASE cb = "onEvent" -> HandleEvent(c, i, ev)
                   [] cb = "onUsage" -> HandleUsage(c, i, ev.content)
                   [] cb = "onReasoning" -> HandleReasoning(c, i, ev.content)
                   [] cb = "onTurnStart" -> HandleTurnStart(c, i)
                   [] cb = "onTurnEnd" -> HandleTurnEnd(c, i)
                   [] cb = "onIntent" -> HandleIntent(c, i, ev.content)
                   [] OTHER -> c
       IN Callback(c1, i, ev, Tail(called))

\* ------------------------------------------------- the loop of handleSubmit
\* flushBuffer; sinceFlush is Date.now() - lastFlush, counted up to the interval
FlushBuffer(c, i) ==
  LET contentToAdd == c.submits[i].chunkBuffer
      Update(msg) == [msg EXCEPT !.content = @ \o contentToAdd,
                                 !.turnPhase = "responding"]
      c1 == IF contentToAdd # ""
            THEN [c EXCEPT !.submits[i].chunkBuffer = "",
                           !.messages = MapAssistant(@, c.submits[i].assistantId,
                                                     Update)]
            ELSE c
  IN [c1 EXCEPT !.submits[i].sinceFlush = 0]

\* The body of the for-await loop, for one chunk
LoopBody(c, i, chunk) ==
  LET c1 == [c EXCEPT !.submits[i].chunkBuffer = @ \o chunk,
                      !.submits[i].chunks = @ \o chunk]
  IN IF c1.submits[i].sinceFlush >= STREAM_DEBOUNCE_MS THEN FlushBuffer(c1, i) ELSE c1

\* Mutant: the call returns without its finally block
Finish_KeepsFlags(c, i, end) ==
  Return(c, i, end)

\* finally { setIsStreaming(false); if (cancelRef.current) cancelRef.current = false; }
Finish(c, i, end) ==
  Return([c EXCEPT !.isStreaming = FALSE, !.cancelRef = FALSE], i, end)

\* Mutant: the loop's end is not followed by a final flush
Completed_NoFinalFlush(c, i) ==
  LET Update(msg) == [msg EXCEPT !.isStreaming = FALSE, !.turnPhase = Undefined]
  IN Finish([c EXCEPT !.messages = MapAssistant(@, c.submits[i].assistantId, Update)],
            i, "ok")

\* Mutant: the completion update puts the assistant message back when it is gone
Completed_Upsert(c, i) ==
  LET c1 == FlushBuffer(c, i)
      Update(msg) == [msg EXCEPT !.isStreaming = FALSE, !.turnPhase = Undefined]
      present == \E k \in DOMAIN c1.messages :
                   c1.messages[k].id = c.submits[i].assistantId
  IN Finish([c1 EXCEPT !.messages =
                 IF present
                 THEN MapAssistant(@, c.submits[i].assistantId, Update)
                 ELSE Append(@, Msg(c.submits[i].assistantId, "assistant",
                                    c.submits[i].chunks, Undefined))],
            i, "ok")

\* The sequence ended: the final flush and the update that ends the message
Completed(c, i) ==
  LET c1 == FlushBuffer(c, i)
      Update(msg) == [msg EXCEPT !.isStreaming = FALSE, !.turnPhase = Undefined]
  IN Finish([c1 EXCEPT !.messages = MapAssistant(@, c.submits[i].assistantId, Update)],
            i, "ok")

\* Mutant: the error is appended to the content received so far
Failed_KeepsContent(c, i, message) ==
  LET Update(msg) == [msg EXCEPT !.content = @ \o "Error: " \o message,
                                 !.isStreaming = FALSE, !.kind = "error"]
  IN Finish([c EXCEPT !.messages = MapAssistant(@, c.submits[i].assistantId, Update)],
            i, "error")

\* catch (error): the message of the error replaces the content
Failed(c, i, message) ==
  LET Update(msg) == [msg EXCEPT !.content = "Error: " \o message,
                                 !.isStreaming = FALSE, !.kind = "error"]
  IN Finish([c EXCEPT !.messages = MapAssistant(@, c.submits[i].assistantId, Update)],
            i, "error")

\* ----------------------------------------------------------- handleSubmit
NotReadyText ==
  IF copilotError # Undefined
  THEN "Copilot error: " \o copilotError
  ELSE "Copilot is not ready yet."

\* The outcomes handleCommand applies by awaiting a callback of the host
AwaitedOutcomes ==
  {"open-model-picker", "set-model", "new-session", "resume-session",
   "set-reasoning-effort"}

HostCall(callback, arg) == [callback |-> callback, arg |-> arg]

\* The switch of handleCommand; onClear is clearMessages
ApplyOutcome(c, outcome) ==
  CASE outcome.type = "message" ->
         AppendSystemMessage(c, outcome.message, Coalesce(outcome.kind, "info"))
    [] outcome.type = "clear" ->
         [c EXCEPT !.messages = <<>>,
                   !.applied = Append(@, HostCall("onClear", Undefined))]
    [] outcome.type = "exit" ->
         [c EXCEPT !.applied = Append(@, HostCall("onExit", Undefined))]
    [] outcome.type = "open-model-picker" ->
         [c EXCEPT !.applied = Append(@, HostCall("onOpenModelPicker", Undefined))]
    [] outcome.type = "set-model" ->
         [c EXCEPT !.applied = Append(@, HostCall("onSwitchModel", outcome.arg))]
    [] outcome.type = "new-session" ->
         [c EXCEPT !.applied = Append(@, HostCall("onNewSession", Undefined))]
    [] outcome.type = "resume-session" ->
         [c EXCEPT !.applied = Append(@, HostCall("onResumeSession", outcome.arg))]
    [] outcome.type = "set-reasoning-effort" ->
         [c EXCEPT !.applied = Append(@, HostCall("onSetReasoningEffort", outcome.arg))]
    [] OTHER -> c

\* Mutant: the placeholder is appended before the user message
BeginStream_AssistantFirst(c, i, mentionResult) ==
  LET c1 == IF mentionResult.errors # <<>>
            THEN AppendSystemMessage(c, JoinLines(mentionResult.errors), "error")
            ELSE c
      escapedValue == Join(c.submits[i].escaped)
      userMessage ==
        [Msg(c1.nextId + 1, "user", escapedValue, Undefined)
           EXCEPT !.attachments = mentionResult.attachments]
      assistantId == c1.nextId + 2
      assistantMessage ==
        [Msg(assistantId, "assistant", "", Undefined) EXCEPT !.isStreaming = TRUE]
  IN [c1 EXCEPT !.nextId = assistantId,
                !.messages = @ \o <<assistantMessage, userMessage>>,
                !.input = <<>>,
                !.isStreaming = TRUE,
                !.cancelRef = FALSE,
                !.sent = Append(@, [prompt |-> escapedValue,
                                    attachments |-> mentionResult.attachments]),
                !.submits[i].pc = "streaming",
                !.submits[i].assistantId = assistantId,
                !.submits[i].st = StreamStart]

\* From the user and assistant messages to the first next() of the for-await loop
BeginStream(c, i, mentionResult) ==
  LET c1 == IF mentionResult.errors # <<>>
            THEN AppendSystemMessage(c, JoinLines(mentionResult.errors), "error")
            ELSE c
      escapedValue == Join(c.submits[i].escaped)
      userMessage ==
        [Msg(c1.nextId + 1, "user", escapedValue, Undefined)
           EXCEPT !.attachments = mentionResult.attachments]
      assistantId == c1.nextId + 2
      assistantMessage ==
        [Msg(assistantId, "assistant", "", Undefined) EXCEPT !.isStreaming = TRUE]
  IN [c1 EXCEPT !.nextId = assistantId,
                !.messages = @ \o <<userMessage, assistantMessage>>,
                !.input = <<>>,
                !.isStreaming = TRUE,
                !.cancelRef = FALSE,
                !.sent = Append(@, [prompt |-> escapedValue,
                                    attachments |-> mentionResult.attachments]),
                !.submits[i].pc = "streaming",
                !.submits[i].assistantId = assistantId,
                !.submits[i].st = StreamStart]

\* await resolveFileMentions(escapedValue, ...): a text without mentions is
\* resolved without leaving the task, one with mentions waits for fs.stat
Mention(c, i) ==
  LET mentions == ExtractMentions(c.submits[i].escaped) IN
    IF mentions = <<>>
    THEN BeginStream(c, i, [attachments |-> <<>>, errors |-> <<>>])
    ELSE [c EXCEPT !.submits[i].pc = "mentions", !.submits[i].mentions = mentions]

\* Mutant: the error outcome of an unknown command is not taken as handled
AfterCommand_ErrorIsPrompt(c, i, outcome) ==
  IF outcome.type = "null" \/ outcome.kind = "error"
  THEN Mention(c, i)
  ELSE Return([c EXCEPT !.input = <<>>], i, "command")

\* if (commandHandled) { callbacks.setInput(''); return; }
AfterCommand(c, i, outcome) ==
  IF outcome.type = "null"
  THEN Mention(c, i)
  ELSE Return([c EXCEPT !.input = <<>>], i, "command")

\* await callbacks.handleCommand(rawValue): runCommand and the switch run in
\* the task of the submit unless the command awaits the client ("command":
\* the outcome is still to come) or the outcome's callback is awaited
\* ("callback": it has been called and is still running).
DispatchCommand(c, i, rawValue) ==
  LET parsedCmd == ParseCommand(rawValue)
      outcome == RunCommand(rawValue)
      c1 == [c EXCEPT !.dispatched = Append(@, Join(rawValue)),
                      !.submits[i].outcome = outcome]
  IN IF parsedCmd.parsed /\ Matches(parsedCmd.name) # {}
        /\ AwaitsClient(COMMANDS[Min(Matches(parsedCmd.name))].name, parsedCmd.args)
     THEN [c1 EXCEPT !.submits[i].pc = "command"]
     ELSE IF outcome.type \in AwaitedOutcomes
     THEN [ApplyOutcome(c1, outcome) EXCEPT !.submits[i].pc = "callback"]
     ELSE AfterCommand(ApplyOutcome(c1, outcome), i, outcome)

\* Mutant: readiness is looked at before the blank input and the streaming flag
HandleSubmit_ReadyFirst(c, i) ==
  LET value == c.submits[i].value
      rawValue == Trim(value)
      escapedValue ==
        IF StartsWith(rawValue, <<"/", "/">>) THEN Slice(rawValue, 1) ELSE rawValue
      c1 == [c EXCEPT !.submits[i].escaped = escapedValue]
  IN IF ~isReady
     THEN Return(AppendSystemMessage(c, NotReadyText, "error"), i, "not ready")
     ELSE IF Trim(value) = <<>> \/ c.isStreaming
     THEN Return(c, i, "noop")
     ELSE IF ~StartsWith(rawValue, <<"/", "/">>)
     THEN DispatchCommand(c1, i, rawValue)
     ELSE Mention(c1, i)

\* Mutant: the escape is looked for in the text that has lost its slash
HandleSubmit_EscapedDispatched(c, i) ==
  LET value == c.submits[i].value
      rawValue == Trim(value)
      escapedValue ==
        IF StartsWith(rawValue, <<"/", "/">>) THEN Slice(rawValue, 1) ELSE rawValue
      c1 == [c EXCEPT !.submits[i].escaped = escapedValue]
  IN IF Trim(value) = <<>> \/ c.isStreaming
     THEN Return(c, i, "noop")
     ELSE IF ~isReady
     THEN Return(AppendSystemMessage(c, NotReadyText, "error"), i, "not ready")
     ELSE IF ~StartsWith(escapedValue, <<"/", "/">>)
     THEN DispatchCommand(c1, i, escapedValue)
     ELSE Mention(c1, i)

\* handleSubmit(value, callbacks), up to its first await that leaves the task;
\* c.submits[i] is the invocation
HandleSubmit(c, i) ==
  LET value == c.submits[i].value
      rawValue == Trim(value)
      escapedValue ==
        IF StartsWith(rawValue, <<"/", "/">>) THEN Slice(rawValue, 1) ELSE rawValue
      c1 == [c EXCEPT !.submits[i].escaped = escapedValue]
  IN IF Trim(value) = <<>> \/ c.isStreaming
     THEN Return(c, i, "noop")
     ELSE IF ~isReady
     THEN Return(AppendSystemMessage(c, NotReadyText, "error"), i, "not ready")
     ELSE IF ~StartsWith(rawValue, <<"/", "/">>)
     THEN DispatchCommand(c1, i, rawValue)
     ELSE Mention(c1, i)

\* ------------------------------------------------------------- the session
\* The events of a plain response: chunks, and the end or the failure of the turn.
\* A chunk carries the text of its event.
ChatEvents ==
  {Event("assistant.message_delta", FALSE, TextOf(nEmitted + 1), Undefined)}
  \cup {Event("session.idle", FALSE, Undefined, Undefined)}
  \cup {Event("session.error", FALSE, Undefined, e) : e \in ErrorTexts}

\* The events handleEvent turns into notices (content: the tool or agent name or
\* the number of messages removed; message: the error), a tool start without a
\* tool name, and the events that move turnPhase
ResponseEvents ==
  ChatEvents
  \cup {Event(t, FALSE, "x", Undefined) :
     t \in {"session.truncation", "subagent.started", "subagent.completed"}}
  \cup {Event("tool.execution_start", FALSE, c, Undefined) : c \in {"grep", Undefined}}
  \cup {Event(t, FALSE, Undefined, Undefined) :
     t \in {"assistant.turn_start", "assistant.turn_end",
            "session.compaction_start", "session.compaction_complete"}}
  \cup {Event("subagent.failed", FALSE, "x", e) : e \in ErrorTexts}

\* The event reaches the handler of every stream that is subscribed, in the
\* order of registration; each handler calls its callbacks as it runs.
RECURSIVE EmitFrom(_, _, _)
EmitFrom(c, i, ev) ==
  IF i > Len(c.submits) THEN c
  ELSE IF ~c.submits[i].st.subscribed THEN EmitFrom(c, i + 1, ev)
  ELSE LET s == Handler(StreamClosure(c.submits[i].st), ev)
           c1 == [c EXCEPT !.submits[i].st.queue = s.queue,
                           !.submits[i].st.idleTimer = s.idleTimer,
                           !.submits[i].st.sawDelta = s.sawDelta]
       IN EmitFrom(Callback(c1, i, ev, s.effects), i + 1, ev)

\* A continuation is due: a promise some loop awaits has resolved. It runs
\* before the event loop turns to a timer, an event or a key press.
ContinuationDue ==
  \E i \in DOMAIN submits :
    submits[i].st.pc = "awaitNext" /\ Len(submits[i].st.queue.resolved) > 0

\* ------------------------------------------------------------------ state
Inputs ==
  {<<" ", " ">>,
   <<"h", "i">>,
   <<"h", "i", " ", "@", "f">>,
   <<"/", "/", "h", "e", "l", "p">>,
   <<"/", "h", "e", "l", "p">>,
   <<"/", "x">>,
   <<"/", "m", "o", "d", "e", "l">>,
   <<"/", "m", "o", "d", "e", "l", " ", "g", "p", "t", "-", "4">>}

ChatInit ==
  /\ options \in [idleTimeoutMs : Timeouts, callbacks : {Callbacks}]
  /\ pc = "suspendedStart"
  /\ queue = EmptyQueue
  /\ idleTimer = NoTimer
  /\ sawDelta = FALSE
  /\ subscribed = FALSE
  /\ yielded = <<>>
  /\ result = "none"
  /\ effects = <<>>
  /\ log = <<>>
  /\ unheard = {}
  /\ nEmitted = 0
  /\ quiet = 0
  /\ sendState = "none"
  /\ ChatIdle
  /\ NoCall
  /\ isReady \in BOOLEAN
  /\ copilotError \in (IF isReady THEN {Undefined} ELSE {Undefined} \cup ErrorTexts)

\* The outcomes whose callback of the host (switchModel, onNewSession,
\* onResumeSession, onSetReasoningEffort) creates or resumes a session
SessionOutcomes ==
  {"set-model", "new-session", "resume-session", "set-reasoning-effort"}

\* The call waits for a callback that is creating a session: setStatus('starting')
CreatesSession(call) ==
  call.pc = "callback" /\ call.outcome.type \in SessionOutcomes

\* The message the host's callback appends when createSession or resumeSession
\* has returned the session (ok) or null
CallbackNotice(outcome, ok) ==
  CASE outcome.type = "set-model" ->
         IF ok THEN Message("Switched model to " \o outcome.arg \o ".", "info")
         ELSE Message("Failed to switch model to " \o outcome.arg \o ".", "error")
    [] outcome.type = "new-session" ->
         IF ok THEN Message("Started new session s2.", "info")
         ELSE Message("Failed to start new session.", "error")
    [] outcome.type = "resume-session" ->
         IF ok THEN Message("Resumed session " \o outcome.arg \o ".", "info")
         ELSE Message("Failed to resume session " \o outcome.arg \o ".", "error")
    [] outcome.type = "set-reasoning-effort" ->
         IF ok THEN Message("Reasoning effort set to " \o outcome.arg \o ".", "info")
         ELSE Message("Failed to set reasoning effort to " \o outcome.arg \o ".",
                      "error")

\* The host calls handleSubmit with the value of its input field
Submit(v) ==
  /\ Len(submits) < MaxSubmits
  /\ ~ContinuationDue
  /\ LET c == HandleSubmit([Chat EXCEPT !.input = v,
                                        !.submits = Append(@, NewCall(v))],
                           Len(submits) + 1)
     IN /\ Commit(c)
        /\ isReady' = (isReady /\ ~CreatesSession(c.submits[Len(submits) + 1]))
  /\ UNCHANGED <<pureVars, adapterVars, copilotError>>

\* The client has answered the command, or the host's callback has returned:
\* createSession and resumeSession end with the status ready and no error, or
\* with the status error and the error of the client
CommandSettles(i, ok) ==
  /\ submits[i].pc \in {"command", "callback"}
  /\ ~ContinuationDue
  /\ IF CreatesSession(submits[i])
     THEN LET notice == CallbackNotice(submits[i].outcome, ok) IN
          /\ Commit(AfterCommand(AppendSystemMessage(Chat, notice.message, notice.kind),
                                  i, submits[i].outcome))
          /\ isReady' = ok
          /\ copilotError' = (IF ok THEN Undefined ELSE CHOOSE e \in ErrorTexts : TRUE)
     ELSE /\ ok
          /\ Commit(AfterCommand(IF submits[i].pc = "command"
                                  THEN ApplyOutcome(Chat, submits[i].outcome)
                                  ELSE Chat,
                                  i, submits[i].outcome))
          /\ UNCHANGED <<isReady, copilotError>>
  /\ UNCHANGED <<pureVars, adapterVars>>

\* fs.stat has answered for every mention
MentionsSettle(i, stats) ==
  /\ submits[i].pc = "mentions"
  /\ ~ContinuationDue
  /\ Commit(BeginStream(Chat, i, ResolveFileMentions(submits[i].mentions, stats)))
  /\ UNCHANGED <<pureVars, adapterVars, isReady, copilotError>>

\* session.send resolves: the loop of streamResponse calls next()
StreamSendResolves(i) ==
  /\ submits[i].st.pc = "sending"
  /\ ~ContinuationDue
  /\ Commit([Chat EXCEPT !.submits[i].st.queue = QueueNext(@),
                         !.submits[i].st.pc = "awaitNext"])
  /\ UNCHANGED <<pureVars, adapterVars, isReady, copilotError>>

\* session.send rejects: streamResponse throws through its finally block
StreamSendRejects(i) ==
  /\ submits[i].st.pc = "sending"
  /\ ~ContinuationDue
  /\ Commit(Failed([Chat EXCEPT !.submits[i].st = StreamFinally(@, "failed")],
                   i, SendError))
  /\ UNCHANGED <<pureVars, adapterVars, isReady, copilotError>>

\* The promise of next() has resolved: a chunk runs the loop body, which asks
\* for the next one; an error or the end leaves the loop
StreamResume(i) ==
  /\ submits[i].st.pc = "awaitNext"
  /\ Len(submits[i].st.queue.resolved) > 0
  /\ LET item == Head(submits[i].st.queue.resolved)
         c == [Chat EXCEPT !.submits[i].st.queue.resolved = Tail(@)]
     IN Commit(CASE item.type = "data" ->
                      [LoopBody(c, i, item.value)
                         EXCEPT !.submits[i].st.queue = QueueNext(@)]
                 [] item.type = "error" ->
                      Failed([c EXCEPT !.submits[i].st = StreamFinally(@, "failed")],
                             i, item.value)
                 [] OTHER ->
                      Completed([c EXCEPT !.submits[i].st = StreamFinally(@, "done")],
                                i))
  /\ UNCHANGED <<pureVars, adapterVars, isReady, copilotError>>

\* The session emits an event while some stream is subscribed
SessionEmits(ev) ==
  /\ nEmitted < MaxEvents
  /\ ~ContinuationDue
  /\ \E i \in DOMAIN submits : submits[i].st.subscribed
  /\ Commit(EmitFrom(Chat, 1, ev))
  /\ nEmitted' = nEmitted + 1
  /\ UNCHANGED <<options, pc, queue, idleTimer, sawDelta, subscribed, yielded,
                 result, effects, log, unheard, quiet, sendState, isReady,
                 copilotError, pureVars>>

\* The idle timer of a stream fires
StreamTimerFire(i) ==
  /\ submits[i].st.idleTimer = 0
  /\ ~ContinuationDue
  /\ Commit([Chat EXCEPT
               !.submits[i].st.queue =
                  Push(@, ErrorItem(TimeoutMessage(options.idleTimeoutMs))),
               !.submits[i].st.idleTimer = NoTimer])
  /\ UNCHANGED <<pureVars, adapterVars, isReady, copilotError>>

\* TickMs pass: pending timers come closer, and so does the next flush
ClockTick ==
  /\ ~ContinuationDue
  /\ \A i \in DOMAIN submits : submits[i].st.idleTimer # 0
  /\ \E i \in DOMAIN submits :
       /\ submits[i].pc = "streaming"
       /\ \/ submits[i].st.idleTimer > 0
          \/ submits[i].sinceFlush < STREAM_DEBOUNCE_MS
  /\ submits' =
       [i \in DOMAIN submits |->
          IF submits[i].pc # "streaming" THEN submits[i]
          ELSE [submits[i] EXCEPT
                  !.sinceFlush = IF @ + TickMs > STREAM_DEBOUNCE_MS
                                 THEN STREAM_DEBOUNCE_MS ELSE @ + TickMs,
                  !.st.idleTimer = IF @ = NoTimer THEN NoTimer
                                   ELSE IF @ > TickMs THEN @ - TickMs ELSE 0]]
  /\ UNCHANGED <<pureVars, adapterVars, messages, isStreaming, cancelRef, isReady,
                 copilotError, input, sent, dispatched, applied, nextId>>

\* The host calls clearMessages
ClearMessages ==
  /\ ~ContinuationDue
  /\ messages' = <<>>
  /\ UNCHANGED <<pureVars, adapterVars, isStreaming, cancelRef, isReady, copilotError,
                 input, submits, sent, dispatched, applied, nextId>>

\* The host's Escape key while a response streams: the flag is set, the
\* session is asked to abort and a notice is appended. The key is pressed at
\* most once per response.
\* Mutant: the key also clears the streaming flag
Escape_EndsStream ==
  /\ ~ContinuationDue
  /\ isStreaming /\ isReady
  /\ ~cancelRef
  /\ Commit([AppendSystemMessage(Chat, "Canceled current response.", "info")
               EXCEPT !.cancelRef = TRUE,
                      !.isStreaming = FALSE,
                      !.applied = Append(@, HostCall("session.abort", Undefined))])
  /\ UNCHANGED <<pureVars, adapterVars, isReady, copilotError>>

\* cancelRef.current = true; void session.abort(); appendSystemMessage(...)
Escape ==
  /\ ~ContinuationDue
  /\ isStreaming /\ isReady
  /\ ~cancelRef
  /\ Commit([AppendSystemMessage(Chat, "Canceled current response.", "info")
               EXCEPT !.cancelRef = TRUE,
                      !.applied = Append(@, HostCall("session.abort", Undefined))])
  /\ UNCHANGED <<pureVars, adapterVars, isReady, copilotError>>

\* The controller under any number of submits, with plain responses
ChatNext ==
  \/ \E v \in Inputs : Submit(v)
  \/ \E i \in DOMAIN submits : \E ok \in BOOLEAN : CommandSettles(i, ok)
  \/ \E i \in DOMAIN submits :
       \E stats \in [DOMAIN submits[i].mentions -> Stats] : MentionsSettle(i, stats)
  \/ \E i \in DOMAIN submits : StreamSendResolves(i)
  \/ \E i \in DOMAIN submits : StreamSendRejects(i)
  \/ \E i \in DOMAIN submits : StreamResume(i)
  \/ \E ev \in ChatEvents : SessionEmits(ev)
  \/ \E i \in DOMAIN submits : StreamTimerFire(i)
  \/ ClockTick

SpecChat == ChatInit /\ [][ChatNext]_vars

\* One response: a single prompt, every event of the session, and the host
\* clearing the transcript or pressing Escape at any moment
ResponseNext ==
  \/ submits = <<>> /\ Submit(<<"h", "i">>)
  \/ \E i \in DOMAIN submits : StreamSendResolves(i)
  \/ \E i \in DOMAIN submits : StreamSendRejects(i)
  \/ \E i \in DOMAIN submits : StreamResume(i)
  \/ \E ev \in ResponseEvents : SessionEmits(ev)
  \/ \E i \in DOMAIN submits : StreamTimerFire(i)
  \/ ClockTick
  \/ ClearMessages
  \/ Escape

SpecResponse == ChatInit /\ [][ResponseNext]_vars

\* The events of the side channels: the usage snapshot, a piece of reasoning and
\* the intent carry the text of their event
SideChannelEvents ==
  ChatEvents
  \cup {Event(t, FALSE, TextOf(nEmitted + 1), Undefined) :
     t \in {"assistant.usage", "assistant.reasoning_delta", "assistant.intent"}}
  \cup {Event(t, FALSE, Undefined, Undefined) :
     t \in {"assistant.turn_start", "assistant.turn_end"}}

\* Responses one after the other, with the events of the side channels
SideChannelNext ==
  \/ Submit(<<"h", "i">>)
  \/ \E i \in DOMAIN submits : StreamSendResolves(i)
  \/ \E i \in DOMAIN submits : StreamSendRejects(i)
  \/ \E i \in DOMAIN submits : StreamResume(i)
  \/ \E ev \in SideChannelEvents : SessionEmits(ev)
  \/ \E i \in DOMAIN submits : StreamTimerFire(i)
  \/ ClockTick

SpecSideChannel == ChatInit /\ [][SideChannelNext]_vars

\* Prompts with one, two and three mentions, bare and quoted, with punctuation
MentionInputs ==
  {<<"s", "e", "e", " ", "@", "a">>,
   <<"@", "a", " ", "@", "b">>,
   <<"x", " ", "@", "a", " ", "@", "b", " ", "@", "c">>,
   <<"@", "\"", "a", " ", "b", "\"", " ", "@", "c", ",", " ", "@", "d", ".">>,
   <<"@", "a", " ", "@", "a", " ", "@", "b">>}

\* One prompt with mentions, up to the start of its stream
MentionNext ==
  \/ \E v \in MentionInputs : submits = <<>> /\ Submit(v)
  \/ \E i \in DOMAIN submits :
       \E stats \in [DOMAIN submits[i].mentions -> AllStats] : MentionsSettle(i, stats)

SpecMention == ChatInit /\ [][MentionNext]_vars

\* Inputs that begin with a slash and have no token after it ("/", "/" and
\* an empty quoted string, with blanks), and an unknown command beside them
SlashInputs ==
  {<<"/">>,
   <<"/", "\"", "\"">>,
   <<" ", "/", " ">>,
   <<"/", " ", "'", "'">>,
   <<"/", "x">>}

\* One submit of such an input and the response it starts
SlashNext ==
  \/ \E v \in SlashInputs : submits = <<>> /\ Submit(v)
  \/ \E i \in DOMAIN submits : StreamSendResolves(i)
  \/ \E i \in DOMAIN submits : StreamSendRejects(i)
  \/ \E i \in DOMAIN submits : StreamResume(i)
  \/ \E ev \in ChatEvents : SessionEmits(ev)
  \/ \E i \in DOMAIN submits : StreamTimerFire(i)
  \/ ClockTick

SpecSlash == ChatInit /\ [][SlashNext]_vars

\* ======================================================================
\* The command registry called on its own: runCommand(input, context)
\* ======================================================================
\* The inputs given to runCommand:
\*   "/help", "/status", "/ping", "/session", "/session list", "/session delete s2"
\*   "/session new", "/model", "/agent", "/agents", "/AGENT", "/Agents x"
\*   "/?", "/q", "/nope", "/Nope", "hello", "/"
\*   "/ ping", "", " /ping ", "/reasoning", "/reasoning turbo", "/reasoning high"
\*   "/reasoning HIGH", "/reasoning low", "/reasoning medium", "/reasoning xhigh", "/reasoning high low", "/reasoning  Low "
CommandInputs ==
  {<<"/", "h", "e", "l", "p">>,
   <<"/", "s", "t", "a", "t", "u", "s">>,
   <<"/", "p", "i", "n", "g">>,
   <<"/", "s", "e", "s", "s", "i", "o", "n">>,
   <<"/", "s", "e", "s", "s", "i", "o", "n", " ", "l", "i", "s", "t">>,
   <<"/", "s", "e", "s", "s", "i", "o", "n", " ", "d", "e", "l", "e", "t", "e", " ", "s", "2">>,
   <<"/", "s", "e", "s", "s", "i", "o", "n", " ", "n", "e", "w">>,
   <<"/", "m", "o", "d", "e", "l">>,
   <<"/", "a", "g", "e", "n", "t">>,
   <<"/", "a", "g", "e", "n", "t", "s">>,
   <<"/", "A", "G", "E", "N", "T">>,
   <<"/", "A", "g", "e", "n", "t", "s", " ", "x">>,
   <<"/", "?">>,
   <<"/", "q">>,
   <<"/", "n", "o", "p", "e">>,
   <<"/", "N", "o", "p", "e">>,
   <<"h", "e", "l", "l", "o">>,
   <<"/">>,
   <<"/", " ", "p", "i", "n", "g">>,
   <<>>,
   <<" ", "/", "p", "i", "n", "g", " ">>,
   <<"/", "r", "e", "a", "s", "o", "n", "i", "n", "g">>,
   <<"/", "r", "e", "a", "s", "o", "n", "i", "n", "g", " ", "t", "u", "r", "b", "o">>,
   <<"/", "r", "e", "a", "s", "o", "n", "i", "n", "g", " ", "h", "i", "g", "h">>,
   <<"/", "r", "e", "a", "s", "o", "n", "i", "n", "g", " ", "H", "I", "G", "H">>,
   <<"/", "r", "e", "a", "s", "o", "n", "i", "n", "g", " ", "l", "o", "w">>,
   <<"/", "r", "e", "a", "s", "o", "n", "i", "n", "g", " ", "m", "e", "d", "i", "u", "m">>,
   <<"/", "r", "e", "a", "s", "o", "n", "i", "n", "g", " ", "x", "h", "i", "g", "h">>,
   <<"/", "r", "e", "a", "s", "o", "n", "i", "n", "g", " ", "h", "i", "g", "h", " ", "l", "o", "w">>,
   <<"/", "r", "e", "a", "s", "o", "n", "i", "n", "g", " ", " ", "L", "o", "w", " ">>}

\* The clients given to runCommand: the three methods /status calls behave
\* in every combination; listSessions, deleteSession and ping, of which no
\* command calls two, behave alike
ClientChoices ==
  {client \in Clients :
     client.listSessions = client.ping /\ client.deleteSession = client.ping}

\* The contexts given to runCommand: no client or one of these clients, with
\* or without a session
Contexts ==
  {Context(client, session) :
     client \in ClientChoices \cup {NoClient}, session \in {"s1", Undefined}}

\* After construction, with a session, before any pure function is called
PureInit ==
  /\ ChatInit
  /\ options.idleTimeoutMs = 0
  /\ isReady

\* await runCommand(t, context)
CallRunCommand(t, context) ==
  /\ invoked' = [fn |-> "runCommand", input |-> t, context |-> context]
  /\ returned' = RunCommandOn(t, context)
  /\ UNCHANGED <<adapterVars, chatVars, hookVars, historyVars, bridgeVars>>

\* One call in a behaviour
CommandNext ==
  /\ invoked = NotInvoked
  /\ \E t \in CommandInputs : \E context \in Contexts : CallRunCommand(t, context)

SpecCommand == PureInit /\ [][CommandNext]_vars

\* ======================================================================
\* The picker: utils/picker and hooks/usePicker, for a file pick
\* ======================================================================
MaxInputLen == 4

\* The characters of the inputs typed
InputChars == {"a", "@", " ", "\"", "/"}

\* Every input of at most MaxInputLen of these characters
PickerInputs == UNION {[1..n -> InputChars] : n \in 0..MaxInputLen}

\* The file index; it is shorter than MAX_PICKER_ITEMS, so that no match is
\* cut off, and the order of the items plays no part in a pick
FileIndex ==
  <<<<"a">>, <<"a", " ", "a">>, <<"a", "@", "a">>, <<"d", "/", "a", "a">>>>

\* String.prototype.includes
Includes(t, sub) ==
  \E k \in 0..(Len(t) - Len(sub)) : SubSeq(t, k + 1, k + Len(sub)) = sub

\* String.prototype.lastIndexOf, counting from 0; -1 when c is not in t
LastIndexOf(t, c) ==
  IF \E k \in DOMAIN t : t[k] = c
  THEN (CHOOSE k \in DOMAIN t : t[k] = c /\ \A j \in DOMAIN t : t[j] = c => j <= k) - 1
  ELSE -1

\* String.prototype.slice(from, to), for 0 <= from
SliceTo(t, from, to) == SubSeq(t, from + 1, IF to < Len(t) THEN to ELSE Len(t))

\* normalized.split('/').pop()
BaseName(file) == Slice(file, LastIndexOf(file, "/") + 1)

NoMention == [found |-> FALSE, query |-> <<>>, start |-> -1, quote |-> Undefined]

\* The places where /(^|\s)@(["'])([^"']*)$/ matches: the index of its '@'
QuotedMatches(t) ==
  {i \in DOMAIN t :
     /\ t[i] = "@"
     /\ i = 1 \/ IsSpace(t[i - 1])
     /\ i + 1 <= Len(t) /\ t[i + 1] \in {"\"", "'"}
     /\ \A k \in (i + 2)..Len(t) : t[k] \notin {"\"", "'"}}

\* The places where /(^|\s)@([^\s]*)$/ matches: the index of its '@'
PlainMatches(t) ==
  {i \in DOMAIN t :
     /\ t[i] = "@"
     /\ i = 1 \/ IsSpace(t[i - 1])
     /\ \A k \in (i + 1)..Len(t) : ~IsSpace(t[k])}

\* findActiveMention: the query, the start (input.lastIndexOf('@')) and the
\* open quote of the mention at the end of the input; found is FALSE for null
FindActiveMention(t) ==
  IF QuotedMatches(t) # {}
  THEN LET i == Min(QuotedMatches(t)) IN
         [found |-> TRUE, query |-> Slice(t, i + 1),
          start |-> LastIndexOf(t, "@"), quote |-> t[i + 1]]
  ELSE IF PlainMatches(t) # {}
  THEN LET i == Min(PlainMatches(t)) IN
         [found |-> TRUE, query |-> Slice(t, i),
          start |-> LastIndexOf(t, "@"), quote |-> Undefined]
  ELSE NoMention

\* filterFileMatches(query, files), for fewer matches than MAX_PICKER_ITEMS
FilterFileMatches(query, files) ==
  IF query = <<>> THEN files
  ELSE LET normalizedQuery == ToLowerCase(query)
           matchOnPath == Includes(normalizedQuery, <<"/">>)
       IN SelectSeq(files,
            LAMBDA file :
              IF matchOnPath
              THEN Includes(ToLowerCase(file), normalizedQuery)
              ELSE Includes(BaseName(ToLowerCase(file)), normalizedQuery))

\* wrapMentionValue(value, quote)
WrapMentionValue(value, quote) ==
  IF quote # Undefined THEN <<quote>> \o value \o <<quote>>
  ELSE IF \E k \in DOMAIN value : IsSpace(value[k])
  THEN <<"\"">> \o value \o <<"\"">>
  ELSE value

\* ensureTrailingSpace(value)
EnsureTrailingSpace(value) ==
  IF value # <<>> /\ value[Len(value)] = " " THEN value ELSE Append(value, " ")

\* ---------------------------------------------------- the command picker
MAX_PICKER_ITEMS == 8

\* The characters of a name or an alias of the registry
Chars(s) ==
  CASE s = "help" -> <<"h", "e", "l", "p">>
    [] s = "?" -> <<"?">>
    [] s = "clear" -> <<"c", "l", "e", "a", "r">>
    [] s = "cls" -> <<"c", "l", "s">>
    [] s = "exit" -> <<"e", "x", "i", "t">>
    [] s = "quit" -> <<"q", "u", "i", "t">>
    [] s = "q" -> <<"q">>
    [] s = "model" -> <<"m", "o", "d", "e", "l">>
    [] s = "session" -> <<"s", "e", "s", "s", "i", "o", "n">>
    [] s = "reasoning" -> <<"r", "e", "a", "s", "o", "n", "i", "n", "g">>
    [] s = "ping" -> <<"p", "i", "n", "g">>
    [] s = "status" -> <<"s", "t", "a", "t", "u", "s">>
    [] s = "hooks" -> <<"h", "o", "o", "k", "s">>
    [] s = "provider" -> <<"p", "r", "o", "v", "i", "d", "e", "r">>
    [] s = "mcp" -> <<"m", "c", "p">>
    [] s = "agent" -> <<"a", "g", "e", "n", "t">>
    [] s = "agents" -> <<"a", "g", "e", "n", "t", "s">>

\* usage of the command of this name, as characters
Usage(name) ==
  CASE name = "help" ->
         <<"/", "h", "e", "l", "p">>
    [] name = "clear" ->
         <<"/", "c", "l", "e", "a", "r">>
    [] name = "exit" ->
         <<"/", "e", "x", "i", "t">>
    [] name = "model" ->
         <<"/", "m", "o", "d", "e", "l", " ", "[", "n", "a", "m", "e", "]">>
    [] name = "session" ->
         <<"/", "s", "e", "s", "s", "i", "o", "n", " ", "[", "l", "i", "s",
           "t", "|", "n", "e", "w", "|", "r", "e", "s", "u", "m", "e", " ",
           "<", "i", "d", ">", "|", "d", "e", "l", "e", "t", "e", " ", "<",
           "i", "d", ">", "]">>
    [] name = "reasoning" ->
         <<"/", "r", "e", "a", "s", "o", "n", "i", "n", "g", " ", "[", "l",
           "o", "w", "|", "m", "e", "d", "i", "u", "m", "|", "h", "i", "g",
           "h", "|", "x", "h", "i", "g", "h", "]">>
    [] name = "ping" ->
         <<"/", "p", "i", "n", "g">>
    [] name = "status" ->
         <<"/", "s", "t", "a", "t", "u", "s">>
    [] name = "hooks" ->
         <<"/", "h", "o", "o", "k", "s">>
    [] name = "provider" ->
         <<"/", "p", "r", "o", "v", "i", "d", "e", "r">>
    [] name = "mcp" ->
         <<"/", "m", "c", "p">>
    [] name = "agent" ->
         <<"/", "a", "g", "e", "n", "t">>

\* COMMAND_LIST = listCommands(): name, aliases and usage of every command
COMMAND_LIST ==
  [k \in DOMAIN COMMANDS |->
     [name |-> Chars(COMMANDS[k].name),
      aliases |-> {Chars(a) : a \in COMMANDS[k].aliases},
      usage |-> Usage(COMMANDS[k].name)]]

NoCommand == [found |-> FALSE, query |-> <<>>]

\* Mutant: the escape "//" is not set apart
FindActiveCommand_DoubleSlash(t) ==
  IF ~StartsWith(t, <<"/">>)
  THEN NoCommand
  ELSE IF \E k \in 2..Len(t) : IsSpace(t[k])
  THEN NoCommand
  ELSE [found |-> TRUE, query |-> Slice(t, 1)]

\* findActiveCommand(input): the query of /^\/([^\s]*)$/; found is FALSE for null
FindActiveCommand(t) ==
  IF ~StartsWith(t, <<"/">>) \/ StartsWith(t, <<"/", "/">>)
  THEN NoCommand
  ELSE IF \E k \in 2..Len(t) : IsSpace(t[k])
  THEN NoCommand
  ELSE [found |-> TRUE, query |-> Slice(t, 1)]

\* The order of the lower-case letters, which is theirs under localeCompare
Alphabet ==
  <<"a", "b", "c", "d", "e", "f", "g", "h", "i", "j", "k", "l", "m", "n", "o",
    "p", "q", "r", "s", "t", "u", "v", "w", "x", "y", "z">>

CharRank(c) == CHOOSE k \in DOMAIN Alphabet : Alphabet[k] = c

\* left.localeCompare(right) < 0, for names of lower-case letters
RECURSIVE Precedes(_, _)
Precedes(left, right) ==
  IF right = <<>> THEN FALSE
  ELSE IF left = <<>> THEN TRUE
  ELSE IF Head(left) # Head(right) THEN CharRank(Head(left)) < CharRank(Head(right))
  ELSE Precedes(Tail(left), Tail(right))

\* The score matches.sort gives a command for the normalized query
Score(command, normalized) ==
  IF StartsWith(command.name, normalized) THEN 0
  ELSE IF \E alias \in command.aliases : StartsWith(alias, normalized) THEN 1
  ELSE 2

\* The commands in the order of left.name.localeCompare(right.name)
SortByName(commands) ==
  LET Place(k) ==
        Cardinality({i \in DOMAIN commands :
                       Precedes(commands[i].name, commands[k].name)}) + 1
  IN [n \in DOMAIN commands |-> commands[CHOOSE k \in DOMAIN commands : Place(k) = n]]

\* COMMAND_LIST in that order
CommandsByName == SortByName(COMMAND_LIST)

\* slice(0, n)
Take(items, n) == SubSeq(items, 1, IF n < Len(items) THEN n ELSE Len(items))

\* buildCommandItems(query, commands): the commands whose name or alias starts
\* with the query, by score and then by name, cut at MAX_PICKER_ITEMS
BuildCommandItems(query, commands) ==
  LET normalized == ToLowerCase(query)
      byName == IF commands = COMMAND_LIST THEN CommandsByName
                ELSE SortByName(commands)
      matches ==
        SelectSeq(byName, LAMBDA command : Score(command, normalized) = 0)
        \o SelectSeq(byName, LAMBDA command : Score(command, normalized) = 1)
  IN [n \in DOMAIN Take(matches, MAX_PICKER_ITEMS) |->
        [id |-> Join(matches[n].name), value |-> matches[n].name,
         usage |-> matches[n].usage, disabled |-> FALSE]]

\* buildFileItems(query, files, isIndexing, error): one disabled item when the
\* index failed or is being built, the matches otherwise
BuildFileItems(query, files, isIndexing, error) ==
  IF error
  THEN <<[id |-> "file-index-error", value |-> <<>>, usage |-> <<>>,
          disabled |-> TRUE]>>
  ELSE IF files = <<>> /\ isIndexing
  THEN <<[id |-> "file-index-loading", value |-> <<>>, usage |-> <<>>,
          disabled |-> TRUE]>>
  ELSE LET matches == FilterFileMatches(query, files) IN
         [n \in DOMAIN matches |->
            [id |-> Join(matches[n]), value |-> matches[n], usage |-> <<>>,
             disabled |-> FALSE]]

\* Mutant: a usage of one token also counts as taking arguments
CommandAcceptsArgs_Always(usage) ==
  usage # <<>>

\* commandAcceptsArgs(usage): usage.trim().split(/\s+/) has more than one
\* part, which is when the trimmed usage holds a blank; an absent usage is <<>>
CommandAcceptsArgs(usage) ==
  /\ usage # <<>>
  /\ \E k \in DOMAIN Trim(usage) : IsSpace(Trim(usage)[k])

\* The picker state: pickerContext (kind "none" for null), pickerItems
ClosedPicker == [kind |-> "none", items |-> <<>>]

\* updatePickerFromInput(input), the controller ready and not streaming and
\* the index built: the state it leaves
UpdatePickerFromInput(t) ==
  LET commandMatch == FindActiveCommand(t)
      commands == BuildCommandItems(commandMatch.query, COMMAND_LIST)
      mentionMatch == FindActiveMention(t)
      items == FilterFileMatches(mentionMatch.query, FileIndex)
  IN IF commandMatch.found
     THEN IF commands = <<>> THEN ClosedPicker
          ELSE [kind |-> "command", query |-> commandMatch.query,
                items |-> [n \in DOMAIN commands |-> commands[n].value]]
     ELSE IF mentionMatch.found /\ items # <<>>
     THEN [kind |-> "file", query |-> mentionMatch.query,
           start |-> mentionMatch.start, quote |-> mentionMatch.quote,
           items |-> items]
     ELSE ClosedPicker

\* applyPickerSelection for a file pick: what setInput is given, the picker
\* state after clearPicker, and the value returned
ApplyPickerSelection(t, picker, index) ==
  LET selected == picker.items[index]
      mentionValue == WrapMentionValue(selected, picker.quote)
      mentionStart == picker.start + 1
      mentionEnd == mentionStart + (IF picker.quote # Undefined THEN 1 ELSE 0)
                      + Len(picker.query)
      nextInput == SliceTo(t, 0, mentionStart) \o mentionValue \o Slice(t, mentionEnd)
  IN [input |-> EnsureTrailingSpace(nextInput), picker |-> ClosedPicker,
      handled |-> TRUE]

\* The effect that follows a change of the input
CallUpdatePicker(t) ==
  /\ invoked = NotInvoked
  /\ invoked' = [fn |-> "updatePickerFromInput", input |-> t]
  /\ returned' = UpdatePickerFromInput(t)
  /\ UNCHANGED <<adapterVars, chatVars, hookVars, historyVars, bridgeVars>>

\* Enter with the picker open on files and item k selected
CallApplySelection(k) ==
  /\ invoked.fn = "updatePickerFromInput"
  /\ returned.kind = "file"
  /\ k \in DOMAIN returned.items
  /\ invoked' = [fn |-> "applyPickerSelection", input |-> invoked.input,
                 picker |-> returned, pickerIndex |-> k]
  /\ returned' = ApplyPickerSelection(invoked.input, returned, k)
  /\ UNCHANGED <<adapterVars, chatVars, hookVars, historyVars, bridgeVars>>

PickerNext ==
  \/ \E t \in PickerInputs : CallUpdatePicker(t)
  \/ \E k \in DOMAIN FileIndex : CallApplySelection(k)

SpecPicker == PureInit /\ [][PickerNext]_vars

\* ======================================================================
\* The picker as the application drives it: hooks/usePicker, the effect of
\* app.tsx that follows the input, the keys, and hooks/useFileIndex
\* ======================================================================

\* The state of usePicker and what it is handed, as one record
Hook ==
  [input |-> input, isReady |-> isReady, isStreaming |-> isStreaming,
   isModelPickerOpen |-> isModelPickerOpen, pickerContext |-> pickerContext,
   pickerItems |-> pickerItems, pickerIndex |-> pickerIndex,
   suppressPickerRef |-> suppressPickerRef, files |-> fileIndexHook]

\* isPickerOpen, hasSelectablePickerItems
IsPickerOpen(h) == h.pickerContext.kind # "none" /\ h.pickerItems # <<>>
HasSelectablePickerItems(h) ==
  \E k \in DOMAIN h.pickerItems : ~h.pickerItems[k].disabled

\* clearPicker(), clearPicker(suppressInput)
ClearPicker(h) ==
  [h EXCEPT !.pickerContext = NoContext, !.pickerItems = <<>>, !.pickerIndex = 0]
ClearPickerWith(h, suppressInput) ==
  [ClearPicker(h) EXCEPT !.suppressPickerRef = <<suppressInput>>]

\* Mutant: the selection steps over no disabled item
MovePickerSelection_AnyItem(items, currentIndex, delta) ==
  IF items = <<>> THEN currentIndex
  ELSE (currentIndex + delta + Len(items)) % Len(items)

\* The loop of movePickerSelection from its i-th round on
RECURSIVE MoveFrom(_, _, _, _, _)
MoveFrom(items, currentIndex, nextIndex, delta, i) ==
  IF i >= Len(items) THEN currentIndex
  ELSE LET next == (nextIndex + delta + Len(items)) % Len(items) IN
         IF ~items[next + 1].disabled THEN next
         ELSE MoveFrom(items, currentIndex, next, delta, i + 1)

\* movePickerSelection(delta): the index it sets
MovePickerSelection(items, currentIndex, delta) ==
  IF items = <<>> THEN currentIndex
  ELSE MoveFrom(items, currentIndex, currentIndex, delta, 0)

\* The effect on pickerItems: the index it sets
ResetPickerIndex(items, currentIndex) ==
  IF items = <<>> THEN 0
  ELSE IF currentIndex >= Len(items) \/ items[currentIndex + 1].disabled
  THEN IF \E k \in DOMAIN items : ~items[k].disabled
       THEN Min({k \in DOMAIN items : ~items[k].disabled}) - 1
       ELSE 0
  ELSE currentIndex

\* setPickerContext(context); setPickerItems(items), and the effect on the items
SetPicker(h, context, items) ==
  [h EXCEPT !.pickerContext = context, !.pickerItems = items,
            !.pickerIndex = ResetPickerIndex(items, h.pickerIndex)]

\* ensureFileIndex() of useFileIndex
EnsureFileIndex(f) ==
  IF f.promise THEN f ELSE [f EXCEPT !.isIndexing = TRUE, !.promise = TRUE]

\* Mutant: the remembered input is kept when another input arrives
UpdateOnce_KeepsRef(h) ==
  IF ~h.isReady \/ h.isStreaming \/ h.isModelPickerOpen
  THEN ClearPicker(h)
  ELSE IF h.suppressPickerRef = <<h.input>>
  THEN h
  ELSE
    LET u == h
        commandMatch == FindActiveCommand(h.input)
        mentionMatch == FindActiveMention(h.input)
    IN IF commandMatch.found
       THEN LET items == BuildCommandItems(commandMatch.query, COMMAND_LIST) IN
              IF items = <<>> THEN ClearPicker(u)
              ELSE SetPicker(u, [kind |-> "command", query |-> commandMatch.query],
                             items)
       ELSE IF mentionMatch.found
       THEN LET items == BuildFileItems(mentionMatch.query, h.files.fileIndex,
                                        h.files.isIndexing, h.files.fileIndexError)
                v == [u EXCEPT !.files = EnsureFileIndex(h.files)]
            IN IF items = <<>> THEN ClearPicker(v)
               ELSE SetPicker(v, [kind |-> "file", query |-> mentionMatch.query,
                                  start |-> mentionMatch.start,
                                  quote |-> mentionMatch.quote], items)
       ELSE ClearPicker(u)

\* updatePickerFromInput(input), with the values of the render it closes over
UpdateOnce(h) ==
  IF ~h.isReady \/ h.isStreaming \/ h.isModelPickerOpen
  THEN ClearPicker(h)
  ELSE IF h.suppressPickerRef = <<h.input>>
  THEN h
  ELSE
    LET u == [h EXCEPT !.suppressPickerRef = <<>>]
        commandMatch == FindActiveCommand(h.input)
        mentionMatch == FindActiveMention(h.input)
    IN IF commandMatch.found
       THEN LET items == BuildCommandItems(commandMatch.query, COMMAND_LIST) IN
              IF items = <<>> THEN ClearPicker(u)
              ELSE SetPicker(u, [kind |-> "command", query |-> commandMatch.query],
                             items)
       ELSE IF mentionMatch.found
       THEN LET items == BuildFileItems(mentionMatch.query, h.files.fileIndex,
                                        h.files.isIndexing, h.files.fileIndexError)
                v == [u EXCEPT !.files = EnsureFileIndex(h.files)]
            IN IF items = <<>> THEN ClearPicker(v)
               ELSE SetPicker(v, [kind |-> "file", query |-> mentionMatch.query,
                                  start |-> mentionMatch.start,
                                  quote |-> mentionMatch.quote], items)
       ELSE ClearPicker(u)

\* What the effect of app.tsx depends on: the input, and what re-creates
\* updatePickerFromInput
Deps(h) ==
  <<h.input, IsPickerOpen(h), h.isReady, h.isStreaming, h.isModelPickerOpen,
    h.files.fileIndex, h.files.isIndexing, h.files.fileIndexError>>

\* The renders that follow a handler which took the state from prev to h: the
\* effect runs updatePickerFromInput(input) whenever one of Deps changed
RECURSIVE Render(_, _)
Render(prev, h) ==
  IF Deps(prev) = Deps(h) THEN h ELSE Render(h, UpdateOnce(h))

\* The state after the step is h
Becomes(state) ==
  \E h \in {state} :
    /\ input' = h.input
    /\ isReady' = h.isReady
    /\ isStreaming' = h.isStreaming
    /\ isModelPickerOpen' = h.isModelPickerOpen
    /\ pickerContext' = h.pickerContext
    /\ pickerItems' = h.pickerItems
    /\ pickerIndex' = h.pickerIndex
    /\ suppressPickerRef' = h.suppressPickerRef
    /\ fileIndexHook' = h.files
    /\ UNCHANGED <<adapterVars, messages, cancelRef, copilotError, submits, sent,
                   dispatched, applied, nextId, historyVars, bridgeVars>>

\* The inputs the user leaves in the field
TypedInputs ==
  {<<>>, <<"/">>, <<"/", "m">>, <<"/", "q">>, <<"/", "s">>, <<"/", "x">>,
   <<"/", "m", "o", "d", "e", "l", " ", "g">>, <<"@">>, <<"@", "a">>,
   <<"h", "i">>}

\* The application has not been left by /exit
Running == ~(invoked.fn = "applyPickerSelection" /\ invoked.command = "exit")

\* A pick whose command is awaiting the client
PickPending == invoked.fn = "applyPickerSelection" /\ returned.settled = "pending"

\* The input field is shown (app.tsx renders TextInput)
InputShown == isReady /\ ~isStreaming /\ ~isModelPickerOpen

\* The user edits the input to t
SetInput(t) ==
  /\ Running
  /\ InputShown
  /\ t # input
  /\ Becomes(Render(Hook, [Hook EXCEPT !.input = t]))
  /\ UNCHANGED <<invoked, returned>>

\* Up (-1) or down (+1) with the picker open
KeyArrow(delta) ==
  /\ Running
  /\ ~isModelPickerOpen
  /\ IsPickerOpen(Hook)
  /\ Becomes([Hook EXCEPT
       !.pickerIndex = MovePickerSelection(pickerItems, pickerIndex, delta)])
  /\ UNCHANGED <<invoked, returned>>

\* Escape: it closes the model picker, or else the picker
KeyEscape ==
  /\ Running
  /\ isModelPickerOpen \/ IsPickerOpen(Hook)
  /\ Becomes(Render(Hook,
       IF isModelPickerOpen
       THEN [Hook EXCEPT !.isModelPickerOpen = FALSE]
       ELSE ClearPickerWith(Hook, input)))
  /\ UNCHANGED <<invoked, returned>>

\* chatHandleSubmit(value) as the picker sees it, the controller ready and
\* idle: a command is run and a prompt starts streaming, and both clear the
\* input; /model without a name opens the model picker
ChatSubmit(h, value) ==
  IF Trim(value) = <<>> THEN h
  ELSE IF ~StartsWith(Trim(value), <<"/", "/">>) /\ ParseCommand(Trim(value)).parsed
  THEN [h EXCEPT !.input = <<>>,
                 !.isModelPickerOpen =
                    @ \/ RunCommand(Trim(value)).type = "open-model-picker"]
  ELSE [h EXCEPT !.input = <<>>, !.isStreaming = TRUE]

\* The call of applyPickerSelection, as invoked records it
PickCall(selected) ==
  [fn |-> "applyPickerSelection", input |-> input, kind |-> pickerContext.kind,
   selected |-> selected.value,
   command |-> IF pickerContext.kind = "command" /\ ~CommandAcceptsArgs(selected.usage)
               THEN Join(selected.value) ELSE Undefined]

\* Enter with the picker open (handleSubmit of app.tsx): applyPickerSelection
\* when an item can be selected. A command that takes arguments is spelled into
\* the input; one that takes none is run, and the input is cleared once
\* handleCommand resolved to true, which for /ping and /status is a later step;
\* a file is spliced in. With no item to select the value is submitted.
KeyReturnOnPicker ==
  /\ Running
  /\ ~PickPending
  /\ IsPickerOpen(Hook)
  /\ LET selected == pickerItems[pickerIndex + 1] IN
       IF HasSelectablePickerItems(Hook) /\ ~selected.disabled
       THEN /\ invoked' = PickCall(selected)
            /\ IF pickerContext.kind = "command"
               THEN IF ~CommandAcceptsArgs(selected.usage)
                    THEN LET name == Join(selected.value)
                             cleared == ClearPickerWith(Hook, input)
                         IN IF AwaitsClient(name, <<>>)
                            THEN /\ returned' = [settled |-> "pending"]
                                 /\ Becomes(Render(Hook, cleared))
                            ELSE /\ returned' = Resolved(Run(name, <<>>).type # "null")
                                 /\ Becomes(Render(Hook,
                                      IF Run(name, <<>>).type # "null"
                                      THEN [cleared EXCEPT !.input = <<>>]
                                      ELSE cleared))
                    ELSE LET nextInput ==
                               EnsureTrailingSpace(<<"/">> \o selected.value)
                         IN /\ returned' = Resolved(TRUE)
                            /\ Becomes(Render(Hook,
                                 [ClearPickerWith(Hook, nextInput)
                                    EXCEPT !.input = nextInput]))
               ELSE LET nextInput ==
                          ApplyPickerSelection(input,
                            [kind |-> "file", query |-> pickerContext.query,
                             start |-> pickerContext.start,
                             quote |-> pickerContext.quote,
                             items |-> [k \in DOMAIN pickerItems |->
                                          pickerItems[k].value]],
                            pickerIndex + 1).input
                    IN /\ returned' = Resolved(TRUE)
                       /\ Becomes(Render(Hook,
                            [ClearPickerWith(Hook, nextInput)
                               EXCEPT !.input = nextInput]))
       ELSE /\ Becomes(Render(Hook, ChatSubmit(ClearPickerWith(Hook, input), input)))
            /\ UNCHANGED <<invoked, returned>>

\* handleCommand of a pick settles: it resolved to true and the input is
\* cleared, or it rejected (the run of /status, when getState throws)
PickSettles ==
  /\ PickPending
  /\ \E getState \in {"ok", "throws"} :
       LET run == RunOn(invoked.command, <<>>,
                        Context([ReadyClient EXCEPT !.getState = getState], "s1"))
       IN IF run.settled = "resolved"
          THEN /\ returned' = Resolved(run.value.type # "null")
               /\ Becomes(Render(Hook,
                    IF run.value.type # "null"
                    THEN [Hook EXCEPT !.input = <<>>] ELSE Hook))
          ELSE /\ returned' = Rejected(run.value)
               /\ Becomes(Hook)
  /\ UNCHANGED invoked

\* Enter with the picker closed, the controller ready and idle
KeyReturn ==
  /\ Running
  /\ ~IsPickerOpen(Hook)
  /\ InputShown
  /\ Trim(input) # <<>>
  /\ Becomes(Render(Hook, ChatSubmit(Hook, input)))
  /\ UNCHANGED <<invoked, returned>>

\* The response of the prompt in flight ends
StreamingEnds ==
  /\ Running
  /\ isStreaming
  /\ Becomes(Render(Hook, [Hook EXCEPT !.isStreaming = FALSE]))
  /\ UNCHANGED <<invoked, returned>>

\* The session is created: status 'ready' and no error
BecomesReady ==
  /\ ~isReady
  /\ copilotError = Undefined
  /\ Becomes(Render(Hook, [Hook EXCEPT !.isReady = TRUE]))
  /\ UNCHANGED <<invoked, returned>>

\* buildFileIndex resolves with the files, or rejects
FileIndexSettles(built) ==
  /\ Running
  /\ fileIndexHook.promise /\ fileIndexHook.isIndexing
  /\ Becomes(Render(Hook,
       [Hook EXCEPT !.files =
          IF built
          THEN [@ EXCEPT !.fileIndex = FileIndex, !.fileIndexError = FALSE,
                         !.isIndexing = FALSE]
          ELSE [@ EXCEPT !.fileIndexError = TRUE, !.promise = FALSE,
                         !.isIndexing = FALSE]]))
  /\ UNCHANGED <<invoked, returned>>

HookNext ==
  \/ \E t \in TypedInputs : SetInput(t)
  \/ \E delta \in {-1, 1} : KeyArrow(delta)
  \/ KeyEscape
  \/ KeyReturnOnPicker
  \/ PickSettles
  \/ KeyReturn
  \/ StreamingEnds
  \/ BecomesReady
  \/ \E built \in BOOLEAN : FileIndexSettles(built)

\* After construction, the session there or still to come
HookInit ==
  /\ ChatInit
  /\ options.idleTimeoutMs = 0
  /\ copilotError = Undefined

SpecHook == HookInit /\ [][HookNext]_vars

\* ----------------------------------------------- any list of items shown
\* The longest list of items shown
MaxItems == 5

AnEnabledItem == [id |-> "a", value |-> <<"a">>, usage |-> <<>>, disabled |-> FALSE]
ADisabledItem ==
  [id |-> "file-index-loading", value |-> <<>>, usage |-> <<>>, disabled |-> TRUE]

\* Every list of at most MaxItems items, each enabled or disabled
ItemLists ==
  UNION {[1..n -> {AnEnabledItem, ADisabledItem}] : n \in 1..MaxItems}

\* updatePickerFromInput on "@" when the builder returned these items:
\* setPickerContext, setPickerItems, and the effect on the items
ShowItems(items) ==
  /\ Running
  /\ InputShown
  /\ items # pickerItems
  /\ Becomes(SetPicker([Hook EXCEPT !.input = <<"@">>, !.suppressPickerRef = <<>>],
                       [kind |-> "file", query |-> <<>>, start |-> 0,
                        quote |-> Undefined], items))
  /\ UNCHANGED <<invoked, returned>>

SelectionNext ==
  \/ \E items \in ItemLists : ShowItems(items)
  \/ \E delta \in {-1, 1} : KeyArrow(delta)
  \/ KeyEscape
  \/ KeyReturnOnPicker
  \/ StreamingEnds

\* After construction, the session there
SelectionInit ==
  /\ HookInit
  /\ isReady

SpecSelection == SelectionInit /\ [][SelectionNext]_vars

\* ======================================================================
\* The input history: hooks/useInputHistory
\* ======================================================================
\* The option maxHistory
MaxHistory == 3

\* The values given to addToHistory and to navigateUp
HistoryInputs ==
  {<<>>, <<" ">>, <<"a">>, <<" ", "a">>, <<"b">>, <<"c">>}

\* Mutant: an entry equal to the newest is added again
Added_Duplicates(prev, trimmed) ==
  LET newHistory == Append(prev, trimmed) IN
    IF Len(newHistory) > MaxHistory
    THEN Slice(newHistory, Len(newHistory) - MaxHistory)
    ELSE newHistory

\* The updater addToHistory gives setHistory
Added(prev, trimmed) ==
  IF prev # <<>> /\ prev[Len(prev)] = trimmed THEN prev
  ELSE LET newHistory == Append(prev, trimmed) IN
         IF Len(newHistory) > MaxHistory
         THEN Slice(newHistory, Len(newHistory) - MaxHistory)
         ELSE newHistory

\* What a call of the history hook returned: <<>> for null or nothing, <<s>>
\* for the string s. The entries that the navigateUp calls made since the idle
\* position returned are kept in ups, with the input given to the first of
\* them in start, and what the navigateDown calls after them returned in downs.
NoTrail == [ups |-> <<>>, downs |-> <<>>, start |-> <<>>]

Trail == IF invoked = NotInvoked THEN NoTrail ELSE invoked.trail

HistoryCall(fn, value, trail) == [fn |-> fn, value |-> value, trail |-> trail]

\* addToHistory(value)
AddToHistory(value) ==
  /\ invoked' = HistoryCall("addToHistory", value, NoTrail)
  /\ returned' = [value |-> <<>>]
  /\ IF Trim(value) = <<>>
     THEN UNCHANGED historyVars
     ELSE /\ history' = Added(history, Trim(value))
          /\ historyIndex' = -1
          /\ pendingInputRef' = <<>>
  /\ UNCHANGED <<adapterVars, chatVars, hookVars, bridgeVars>>

\* navigateUp(currentInput)
NavigateUp(currentInput) ==
  LET newIndex == IF historyIndex = -1 THEN Len(history) - 1
                  ELSE IF historyIndex - 1 > 0 THEN historyIndex - 1 ELSE 0
  IN
  /\ IF history = <<>>
     THEN /\ returned' = [value |-> <<>>]
          /\ invoked' = HistoryCall("navigateUp", currentInput, Trail)
          /\ UNCHANGED historyVars
     ELSE /\ pendingInputRef' = IF historyIndex = -1 THEN currentInput
                                ELSE pendingInputRef
          /\ IF newIndex = historyIndex
             THEN /\ returned' = [value |-> <<>>]
                  /\ invoked' = HistoryCall("navigateUp", currentInput, Trail)
                  /\ UNCHANGED <<history, historyIndex>>
             ELSE /\ returned' = [value |-> <<history[newIndex + 1]>>]
                  /\ invoked' =
                       HistoryCall("navigateUp", currentInput,
                         IF historyIndex = -1
                         THEN [ups |-> <<history[newIndex + 1]>>, downs |-> <<>>,
                               start |-> currentInput]
                         ELSE IF Trail.ups # <<>> /\ Trail.downs = <<>>
                         THEN [Trail EXCEPT !.ups = Append(@, history[newIndex + 1])]
                         ELSE NoTrail)
                  /\ historyIndex' = newIndex
                  /\ UNCHANGED history
  /\ UNCHANGED <<adapterVars, chatVars, hookVars, bridgeVars>>

\* navigateDown()
NavigateDown ==
  LET newIndex == historyIndex + 1
      value == IF newIndex >= Len(history) THEN pendingInputRef
               ELSE history[newIndex + 1]
  IN
  /\ IF historyIndex = -1
     THEN /\ returned' = [value |-> <<>>]
          /\ invoked' = HistoryCall("navigateDown", <<>>, NoTrail)
          /\ UNCHANGED historyVars
     ELSE /\ returned' = [value |-> <<value>>]
          /\ invoked' =
               HistoryCall("navigateDown", <<>>,
                 IF Trail.ups = <<>> THEN NoTrail
                 ELSE [Trail EXCEPT !.downs = Append(@, value)])
          /\ historyIndex' = IF newIndex >= Len(history) THEN -1 ELSE newIndex
          /\ UNCHANGED <<history, pendingInputRef>>
  /\ UNCHANGED <<adapterVars, chatVars, hookVars, bridgeVars>>

\* resetNavigation()
ResetNavigation ==
  /\ invoked' = HistoryCall("resetNavigation", <<>>, NoTrail)
  /\ returned' = [value |-> <<>>]
  /\ historyIndex' = -1
  /\ pendingInputRef' = <<>>
  /\ UNCHANGED <<history, adapterVars, chatVars, hookVars, bridgeVars>>

HistoryNext ==
  \/ \E value \in HistoryInputs : AddToHistory(value)
  \/ \E currentInput \in HistoryInputs : NavigateUp(currentInput)
  \/ NavigateDown
  \/ ResetNavigation

SpecHistory == PureInit /\ [][HistoryNext]_vars

\* ======================================================================
\* The permission bridge of CopilotProvider: agent/copilotContext
\* ======================================================================
\* The requests the SDK issues in one behaviour
MaxRequests == 4

\* What the user answers a prompt with
PermissionResults == {"approved", "denied"}

\* permissionHandler(request): the SDK issues the next request; its promise
\* is pending, its resolve is put in the ref and the request is shown
PermissionHandler ==
  /\ Len(permissions) < MaxRequests
  /\ permissions' = Append(permissions, "pending")
  /\ permissionResolverRef' = Len(permissions) + 1
  /\ pendingPermission' = Len(permissions) + 1
  /\ UNCHANGED <<adapterVars, chatVars, invoked, returned, hookVars, historyVars>>

\* resolvePermission(result): the user answers the prompt that is shown
ResolvePermission(res) ==
  /\ pendingPermission # 0
  /\ IF permissionResolverRef # 0
     THEN /\ permissions' =
               IF permissions[permissionResolverRef] = "pending"
               THEN [permissions EXCEPT ![permissionResolverRef] = res]
               ELSE permissions
          /\ permissionResolverRef' = 0
     ELSE UNCHANGED <<permissions, permissionResolverRef>>
  /\ pendingPermission' = 0
  /\ UNCHANGED <<adapterVars, chatVars, invoked, returned, hookVars, historyVars>>

BridgeNext ==
  \/ PermissionHandler
  \/ \E res \in PermissionResults : ResolvePermission(res)

SpecBridge == PureInit /\ [][BridgeNext]_vars

\* What the event loop guarantees of one response: a continuation that is due
\* runs, time passes and a timer that is due fires. Nothing obliges the session
\* to answer session.send or to emit an event.
ResponseFairness ==
  /\ WF_vars(\E i \in DOMAIN submits : StreamResume(i))
  /\ WF_vars(\E i \in DOMAIN submits : StreamTimerFire(i))
  /\ WF_vars(ClockTick)

SpecResponseFair == SpecResponse /\ ResponseFairness

\* ------------------------------------------------- what the claims speak of
IsSignal(r) == r.type \in TerminalEvents \cup {"timeout"}

\* The events received before the first terminal signal (idle, error, timer expiry)
RECURSIVE Live(_)
Live(l) ==
  IF l = <<>> \/ IsSignal(Head(l)) THEN <<>> ELSE <<Head(l)>> \o Live(Tail(l))

Signals == SelectSeq(log, IsSignal)
FirstSignalIs(types) == Signals # <<>> /\ Head(Signals).type \in types

RECURSIVE TextsOf(_)
TextsOf(l) ==
  IF l = <<>> THEN <<>>
  ELSE <<IF Head(l).content = Undefined THEN "" ELSE Head(l).content>> \o TextsOf(Tail(l))

RECURSIVE ValuesOf(_)
ValuesOf(items) ==
  IF items = <<>> THEN <<>>
  ELSE (IF Head(items).type = "data" THEN <<Head(items).value>> ELSE <<>>)
       \o ValuesOf(Tail(items))

\* Every chunk in flight: given to the consumer, resolved to it, or buffered
Pipeline == yielded \o ValuesOf(queue.resolved) \o ValuesOf(queue.items)

OnlyDeltas(l) == \A i \in 1..Len(l) : l[i].type = "assistant.message_delta"

Range(f) == {f[i] : i \in DOMAIN f}

\* The step just taken delivered a chunk or terminal event, now the last of log
Received(types) ==
  /\ Len(log') = Len(log) + 1
  /\ log'[Len(log')].type \in types

C6_NoDuplicateFinal ==
  [][(Received({"assistant.message"}) /\ ~log'[Len(log')].opens)
       => (Pipeline' = Pipeline /\ "pushData" \notin Range(effects'))]_vars

C6_Witness ==
  /\ Len(log) >= 2
  /\ log[Len(log)].type = "assistant.message"
  /\ ~log[Len(log)].opens
  /\ log[Len(log)].content # Undefined
  /\ log[Len(log) - 1].type = "assistant.message_delta"
  /\ Len(Pipeline) = 1
  /\ effects # <<>>

\* ------------------------------------------------------------------- C7
\* C7: a final assistant.message with text that is the first event of its
\* logical message (no delta came before it for that message), received
\* while the queue is open, enqueues its content as exactly one chunk.
C7_FinalWithoutDeltaEmitted ==
  [][(Received({"assistant.message"}) /\ log'[Len(log')].opens
        /\ log'[Len(log')].content # Undefined /\ ~queue.closed)
       => Pipeline' = Append(Pipeline, log'[Len(log')].content)]_vars

\* ------------------------------------------------------------------- C2
ErrorReceived == \E i \in 1..Len(log) : log[i].type = "session.error"
FirstError == Head(SelectSeq(log, LAMBDA r : r.type = "session.error"))
MessageOf(r) == IF r.message = Undefined THEN UnknownError ELSE r.message

\* C2 as stated: a session.error received at any point makes the call fail with
\* its message (or "Unknown error"), and once it is received the consumer is
\* yielded no further chunk.
C2_Original ==
  [][/\ (ErrorReceived' /\ pc' \in {"done", "failed"})
          => (pc' = "failed" /\ result' = MessageOf(FirstError'))
     /\ ErrorReceived => yielded' = yielded]_vars

\* C2 as amended: when session.error is the first terminal signal, a call that
\* ends without the consumer leaving fails, with the event's message (or
\* "Unknown error") unless session.send rejected; it has then yielded every
\* chunk enqueued before the error; and no event received after the error adds
\* a chunk.
C2_FirstErrorTerminates ==
  [][/\ (FirstSignalIs({"session.error"})' /\ pc' \in {"done", "failed"})
          => /\ pc' = "failed"
             /\ result' = IF sendState' = "rejected" THEN SendError
                          ELSE MessageOf(Head(Signals'))
             /\ sendState' # "rejected" => yielded' = Pipeline'
     /\ FirstSignalIs({"session.error"}) => Pipeline' = Pipeline]_vars

\* A chunk was queued, the error (without message) came, a later delta was dropped
C2_Witness ==
  /\ FirstSignalIs({"session.error"})
  /\ pc = "failed"
  /\ result = UnknownError
  /\ Len(yielded) = 1
  /\ Len(log) = 3
  /\ log[3].type = "assistant.message_delta"

\* ------------------------------------------------------------------- C3
Window == options.idleTimeoutMs
TimedOut == FirstSignalIs({"timeout"})
HandlerRan == subscribed /\ nEmitted' = nEmitted + 1

\* No signal yet and no event for a whole window since the last event or the start
Silent ==
  /\ Window # 0
  /\ sendState # "none"
  /\ ~Ended
  /\ Signals = <<>>
  /\ quiet >= Window

\* C3 as stated: once the idle window has expired on a live stream, a call
\* that ends without the consumer leaving fails with the timeout error.
C3_Original ==
  (TimedOut /\ pc \in {"done", "failed"})
    => (pc = "failed" /\ result = TimeoutMessage(Window))

\* C3 as amended: with a window T > 0, after T without an event (since the last
\* event or since the timer was first armed) the timer is due, and it fails an
\* open queue only then; every event other than idle and error restarts the
\* window; a call that ends after the expiry without the consumer leaving fails,
\* with "Response timed out after Tms." unless session.send rejected, in which
\* case with the rejection; with T falsy no timer is armed and none expires.
C3_IdleTimeout ==
  [][/\ (TimedOut' /\ pc' \in {"done", "failed"})
          => /\ pc' = "failed"
             /\ result' = IF sendState' = "rejected" THEN SendError
                          ELSE TimeoutMessage(Window)
     /\ Silent' => idleTimer' = 0
     /\ (Received({"timeout"}) /\ ~queue.closed) => quiet = Window
     /\ (HandlerRan /\ Window # 0 /\ ~Received(TerminalEvents))
          => (idleTimer' = Window /\ quiet' = 0)
     /\ Window = 0
          => (idleTimer' = NoTimer /\ \A i \in 1..Len(log') : log'[i].type # "timeout")
    ]_vars

\* A chunk was yielded, then the window expired and the call failed with the timeout
C3_Witness ==
  /\ Window # 0
  /\ pc = "failed"
  /\ result = TimeoutMessage(Window)
  /\ Len(yielded) = 1
  /\ sendState = "resolved"

\* ------------------------------------------------------------------- C4
\* C4: however the call ended, the handler is unsubscribed and no timer is pending.
C4_CleanupOnEveryPath ==
  Ended => (~subscribed /\ idleTimer = NoTimer)

\* The consumer threw while it held a chunk, with an idle timeout configured
C4_Witness ==
  /\ pc = "returned"
  /\ result = "throw"
  /\ Window # 0
  /\ ~queue.closed

\* ------------------------------------------------------------------- C5
\* C5: once the call has ended, no step invokes a callback of the call.
C5_NoCallbackAfterEnd ==
  [][Ended => Range(effects') \cap Callbacks = {}]_vars

\* The session emitted an event after the call had ended with callbacks given
C5_Witness ==
  /\ Ended
  /\ "after" \in unheard
  /\ options.callbacks = Callbacks

\* ------------------------------------------------------------------- C8
\* C8: the handler is registered when send is called, so no event of the call is
\* emitted unheard; while send is pending nothing is yielded and the deltas
\* received are buffered in arrival order; what is yielded afterwards starts
\* with them.
C8_SubscribedBeforeSend ==
  /\ "during" \notin unheard
  /\ sendState = "pending" =>
       /\ subscribed
       /\ yielded = <<>>
       /\ queue.resolved = <<>>
       /\ OnlyDeltas(Live(log)) => ValuesOf(queue.items) = TextsOf(Live(log))
  /\ (sendState = "resolved" /\ OnlyDeltas(Live(log))) =>
       /\ Len(yielded) <= Len(Live(log))
       /\ yielded = SubSeq(TextsOf(Live(log)), 1, Len(yielded))

\* Two deltas arrived before send was acknowledged and are buffered
C8_Witness ==
  /\ sendState = "pending"
  /\ Len(queue.items) = 2
  /\ OnlyDeltas(log)

\* ------------------------------------------------------------------- C9
\* C9: when send rejected, the call has failed with the rejection and no chunk
\* was yielded.
C9_SendRejection ==
  sendState = "rejected" => (pc = "failed" /\ result = SendError /\ yielded = <<>>)

\* send rejected while chunks were buffered
C9_Witness ==
  /\ sendState = "rejected"
  /\ Len(ValuesOf(queue.items)) >= 1

\* ------------------------------------------------------------------ C10
\* C10: for every event the registered handler receives, whatever its type,
\* onEvent (when given) is called exactly once and first.
C10_OnEventFirstOnce ==
  [][(HandlerRan /\ "onEvent" \in options.callbacks)
       => /\ effects' # <<>>
          /\ effects'[1] = "onEvent"
          /\ Cardinality({i \in DOMAIN effects' : effects'[i] = "onEvent"}) = 1]_vars

\* session.error was handled: onEvent first, then fail
C10_Witness == effects = <<"onEvent", "fail">>

\* ------------------------------------------------------------------ C11
\* C11: an event that is neither a delta, a final message, session.idle nor
\* session.error (usage, reasoning, turn, intent, tool, context, subagent, hook
\* and unknown types) leaves the queue as it was: no chunk is enqueued, the
\* sequence is neither closed nor failed, the generator does not move; the
\* handler only re-arms the idle timer (when a timeout is configured).
C11_OtherEventsOnlyRearm ==
  [][\A ev \in Events :
       (subscribed /\ Emit(ev) /\ ev.type \notin ChunkEvents \cup TerminalEvents)
         => /\ queue' = queue
            /\ Pipeline' = Pipeline
            /\ pc' = pc /\ result' = result
            /\ {"pushData", "close", "fail"} \cap Range(effects') = {}
            /\ "resetTimer" \in Range(effects')
            /\ idleTimer' = IF Window # 0 THEN Window ELSE NoTimer]_vars

\* a usage event arrived after a chunk, was handed to onUsage and re-armed
\* the timer of a call that has an idle timeout
C11_Witness ==
  /\ "onUsage" \in Range(effects)
  /\ "pushData" \notin Range(effects)
  /\ Len(Pipeline) >= 1
  /\ Window # 0 /\ idleTimer = Window
  /\ ~Ended

\* ======================================================================
\* Claims about the chat controller
\* ======================================================================
Streaming == {i \in DOMAIN submits : submits[i].pc = "streaming"}
StreamingMessages == {k \in DOMAIN messages : messages[k].isStreaming}

\* ------------------------------------------------------------------ C12
\* C12: at every moment at most one message is marked isStreaming and at most
\* one prompt is in flight, however submit calls interleave with the
\* controller's awaits (command dispatch, mention resolution, streaming).
\* The code does not keep this: the guard of handleSubmit reads isStreaming
\* before the awaits and the flag is only set after them.
C12_OnePromptInFlight ==
  /\ Cardinality(StreamingMessages) <= 1
  /\ Cardinality(Streaming) <= 1

\* The assistant message of submit i, while it is in the transcript
HasAssistant(i) == \E k \in DOMAIN messages : messages[k].id = submits[i].assistantId
AssistantMsg(i) ==
  messages[CHOOSE k \in DOMAIN messages : messages[k].id = submits[i].assistantId]

\* ------------------------------------------------------------------ C13
\* C13: while a response streams, the content of its assistant message followed
\* by the unflushed buffer is the concatenation of the chunks yielded so far,
\* and a step changes the content only by appending to it; after normal
\* completion the content is the concatenation of all the chunks, whenever the
\* debounce let the buffer be flushed.
ContentIsPrefix ==
  \A i \in DOMAIN submits :
    HasAssistant(i) =>
      /\ submits[i].pc = "streaming" =>
           AssistantMsg(i).content \o submits[i].chunkBuffer = submits[i].chunks
      /\ submits[i].end = "ok" => AssistantMsg(i).content = submits[i].chunks

ContentGrows ==
  \A i \in DOMAIN submits :
    (/\ submits[i].pc = "streaming" /\ HasAssistant(i)
     /\ submits'[i].pc \in {"streaming", "returned"} /\ submits'[i].end # "error"
     /\ HasAssistant(i)')
      => \/ AssistantMsg(i)'.content = AssistantMsg(i).content
         \/ AssistantMsg(i)'.content = AssistantMsg(i).content \o submits[i].chunkBuffer
         \/ /\ AssistantMsg(i)'.content = submits'[i].chunks
            /\ submits[i].st.queue.resolved # <<>>
            /\ submits'[i].chunks =
                 submits[i].chunks \o Head(submits[i].st.queue.resolved).value

C13_ContentOnlyGrows == [][ContentIsPrefix' /\ ContentGrows]_vars

\* a response in which one chunk has been flushed and a later one is buffered
C13_Witness ==
  \E i \in DOMAIN submits :
    /\ submits[i].pc = "streaming" /\ HasAssistant(i)
    /\ AssistantMsg(i).content # "" /\ submits[i].chunkBuffer # ""

\* ------------------------------------------------------------------ C14
\* Submit i starts streaming in this step
Started(i) ==
  /\ i \in DOMAIN submits' /\ submits'[i].pc = "streaming"
  /\ i \in DOMAIN submits => submits[i].pc # "streaming"

\* The last two messages are the user message and the placeholder of submit i
EndsWithPrompt(i) ==
  /\ Len(messages') >= Len(messages) + 2
  /\ LET user == messages'[Len(messages') - 1]
         assistant == messages'[Len(messages')]
     IN /\ user.role = "user"
        /\ user.content = Join(submits'[i].escaped)
        /\ user.attachments = sent'[Len(sent')].attachments
        /\ \A k \in DOMAIN user.attachments :
             \E j \in DOMAIN ExtractMentions(submits'[i].escaped) :
               user.attachments[k] = ExtractMentions(submits'[i].escaped)[j]
        /\ assistant.role = "assistant"
        /\ assistant.id = submits'[i].assistantId
        /\ assistant.content = ""
        /\ assistant.isStreaming
  /\ isStreaming'

\* A response that ended normally shows all its chunks and is no longer streaming
CompletedShowsChunks ==
  \A i \in DOMAIN submits :
    (submits[i].end = "ok" /\ HasAssistant(i))
      => /\ AssistantMsg(i).content = submits[i].chunks
         /\ ~AssistantMsg(i).isStreaming
         /\ AssistantMsg(i).turnPhase = Undefined

\* C14 as stated: the submit that starts streaming appends exactly two messages.
C14_Original ==
  [][/\ \A i \in DOMAIN submits' :
          Started(i) => /\ EndsWithPrompt(i)
                        /\ Len(messages') = Len(messages) + 2
                        /\ SubSeq(messages', 1, Len(messages)) = messages
     /\ CompletedShowsChunks']_vars

\* C14 (amended): a submit that passes the guards and is not handled as a
\* command appends, at the end of the transcript, the user message (content =
\* escaped text, attachments = the resolved files) immediately followed by the
\* placeholder (content "", isStreaming true), after one system error message
\* when some mention could not be resolved, and sets the streaming flag; when
\* the adapter yields chunks and idles, the assistant message ends with the
\* concatenated chunks, isStreaming false and no turnPhase.
C14_SubmitAppendsPrompt ==
  [][/\ \A i \in DOMAIN submits' :
          Started(i) =>
            /\ EndsWithPrompt(i)
            /\ SubSeq(messages', 1, Len(messages)) = messages
            /\ LET unresolved ==
                     Len(ExtractMentions(submits'[i].escaped))
                       - Len(sent'[Len(sent')].attachments)
               IN IF unresolved = 0
                  THEN Len(messages') = Len(messages) + 2
                  ELSE /\ Len(messages') = Len(messages) + 3
                       /\ messages'[Len(messages) + 1].role = "system"
                       /\ messages'[Len(messages) + 1].kind = "error"
     /\ CompletedShowsChunks']_vars

\* a prompt with a resolved attachment was answered by two chunks, one of them
\* flushed by the final flush, and idled
C14_Witness ==
  \E i \in DOMAIN submits :
    /\ submits[i].end = "ok" /\ HasAssistant(i)
    /\ submits[i].chunks = "t1t2"
    /\ sent[Len(sent)].attachments # <<>>

\* ------------------------------------------------------------------ C15
\* The error streamResponse throws to the loop of submit i in this step: the
\* rejection of send, or the error item its queue hands out (session.error or
\* the idle timeout)
Thrown(i) ==
  IF submits[i].st.pc = "sending"
  THEN SendError
  ELSE Head(submits[i].st.queue.resolved).value

FailsNow(i) == submits[i].pc = "streaming" /\ submits'[i].end = "error"

\* C15: when the adapter fails (send rejection, session.error or idle timeout)
\* the assistant message of the submit gets the content "Error: <message>",
\* isStreaming false and kind 'error', every other message and the order of the
\* transcript stay as they were, and the streaming flag is cleared.
C15_FailureShown ==
  [][\A i \in DOMAIN submits :
       FailsNow(i) =>
         /\ Thrown(i) \in {SendError, TimeoutMessage(options.idleTimeoutMs)}
                            \cup ErrorTexts
         /\ Len(messages') = Len(messages)
         /\ \A k \in DOMAIN messages :
              IF messages[k].id = submits[i].assistantId
              THEN messages'[k] = [messages[k] EXCEPT
                                     !.content = "Error: " \o Thrown(i),
                                     !.isStreaming = FALSE,
                                     !.kind = "error"]
              ELSE messages'[k] = messages[k]
         /\ ~isStreaming']_vars

\* the idle timeout ended a response of which a chunk had been shown, with
\* other messages around the assistant message
C15_Witness ==
  \E i \in DOMAIN submits :
    /\ submits[i].end = "error" /\ HasAssistant(i)
    /\ submits[i].chunks # ""
    /\ AssistantMsg(i).content = "Error: " \o TimeoutMessage(options.idleTimeoutMs)
    /\ AssistantMsg(i).kind = "error" /\ ~AssistantMsg(i).isStreaming
    /\ Len(messages) >= 3

\* ------------------------------------------------------------------ C16
\* The one submit of a response, from the placeholder to the return
InFlight == Len(submits) >= 1 /\ submits[1].pc = "streaming"
EndedClean ==
  /\ Len(submits) >= 1 /\ submits[1].end \in {"ok", "error"}
  /\ ~isStreaming /\ ~cancelRef

SendSettled == InFlight /\ submits[1].st.pc = "awaitNext"
SignalQueued == InFlight /\ submits[1].st.queue.closed

TimedOutShown ==
  /\ submits[1].end = "error"
  /\ ~isStreaming
  /\ HasAssistant(1) =>
       /\ AssistantMsg(1).content = "Error: " \o TimeoutMessage(options.idleTimeoutMs)
       /\ AssistantMsg(1).kind = "error"
       /\ ~AssistantMsg(1).isStreaming

Dispatched(i) ==
  /\ submits[i].end \notin {"noop", "not ready"}
  /\ ~StartsWith(Trim(submits[i].value), <<"/", "/">>)

ReturnsFromCommand(i) ==
  /\ i \in DOMAIN submits' /\ submits'[i].end = "command"
  /\ i \in DOMAIN submits => submits[i].pc # "returned"

\* Every user or assistant message of the next state is one of this state
NoPromptAdded ==
  \A k \in DOMAIN messages' :
    messages'[k].role \in {"user", "assistant"} => messages'[k] \in Range(messages)

OutcomeApplied(i) ==
  LET outcome == submits[i].outcome IN
    CASE outcome.type = "message" ->
           /\ messages # <<>>
           /\ messages[Len(messages)].role = "system"
           /\ messages[Len(messages)].content = outcome.message
           /\ messages[Len(messages)].kind = Coalesce(outcome.kind, "info")
      [] outcome.type = "clear" -> messages = <<>>
      [] outcome.type = "open-model-picker" ->
           HostCall("onOpenModelPicker", Undefined) \in Range(applied)
      [] outcome.type = "set-model" ->
           HostCall("onSwitchModel", outcome.arg) \in Range(applied)
      [] OTHER -> TRUE

\* C17: for an input that does not begin with "//" and for which the registry
\* returns an outcome (a matched command or the error of an unknown name), the
\* submit applies the outcome, clears the input and returns; it appends no
\* user or assistant message and never starts the adapter. "/model gpt-4"
\* gives set-model with gpt-4 and "/model" gives open-model-picker.
C17_CommandHandled ==
  [][/\ \A i \in DOMAIN submits' \ DOMAIN submits :
          Dispatched(i)' =>
            /\ submits'[i].outcome = RunCommand(Trim(submits'[i].value))
            /\ submits'[i].value = <<"/", "m", "o", "d", "e", "l">> =>
                 submits'[i].outcome =
                   Outcome("open-model-picker", Undefined, Undefined, Undefined)
            /\ submits'[i].value
                 = <<"/", "m", "o", "d", "e", "l", " ", "g", "p", "t", "-", "4">> =>
                 submits'[i].outcome =
                   Outcome("set-model", Undefined, Undefined, "gpt-4")
     /\ \A i \in DOMAIN submits : submits'[i].outcome = submits[i].outcome
     /\ \A i \in DOMAIN submits' :
          submits'[i].outcome # NoOutcome =>
            /\ submits'[i].pc \in {"command", "callback", "returned"}
            /\ submits'[i].st = NoStream
            /\ submits'[i].assistantId = 0
     /\ \A i \in DOMAIN submits' :
          ReturnsFromCommand(i) =>
            /\ submits'[i].outcome # NoOutcome
            /\ OutcomeApplied(i)'
            /\ input' = <<>>
            /\ sent' = sent
            /\ NoPromptAdded]_vars

C17_Witness ==
  /\ Len(submits) = 2
  /\ submits[1].value = <<"/", "x">> /\ submits[1].end = "command"
  /\ submits[2].value = <<"/", "m", "o", "d", "e", "l", " ", "g", "p", "t", "-", "4">>
  /\ submits[2].end = "command"
  /\ applied = <<HostCall("onSwitchModel", "gpt-4")>>
  /\ Len(messages) = 2 /\ messages[1].kind = "error"
  /\ messages[2].content = "Switched model to gpt-4."
  /\ sent = <<>> /\ input = <<>>

\* ------------------------------------------------------------------ C18
Escaped(i) == StartsWith(Trim(submits[i].value), <<"/", "/">>)

\* C18: an input beginning with "//" is never passed to command dispatch;
\* exactly one leading slash is stripped and the remainder, which begins with
\* "/", is the content of the user message and the prompt sent to the adapter:
\* "//help" is sent as "/help".
C18_EscapeSkipsDispatch ==
  [][/\ \A i \in DOMAIN submits' :
          Escaped(i)' =>
            /\ submits'[i].outcome = NoOutcome
            /\ submits'[i].pc \notin {"command", "callback"}
            /\ submits'[i].end # "command"
            /\ i \notin DOMAIN submits => dispatched' = dispatched
            /\ Started(i) =>
                 /\ submits'[i].escaped = Tail(Trim(submits'[i].value))
                 /\ Head(submits'[i].escaped) = "/"
                 /\ messages'[Len(messages') - 1].role = "user"
                 /\ messages'[Len(messages') - 1].content = Join(submits'[i].escaped)
                 /\ sent' = Append(sent, [prompt |-> Join(submits'[i].escaped),
                                          attachments |-> <<>>])
                 /\ submits'[i].value = <<"/", "/", "h", "e", "l", "p">> =>
                      sent'[Len(sent')].prompt = "/help"
     /\ dispatched' # dispatched =>
          /\ Len(submits') = Len(submits) + 1
          /\ ~StartsWith(Trim(submits'[Len(submits')].value), <<"/", "/">>)
          /\ dispatched' = Append(dispatched, Join(Trim(submits'[Len(submits')].value)))
    ]_vars

C18_Witness ==
  /\ Len(submits) = 2
  /\ submits[1].value = <<"/", "/", "h", "e", "l", "p">>
  /\ submits[1].end = "ok"
  /\ submits[2].value = <<"/", "h", "e", "l", "p">>
  /\ submits[2].end = "command"
  /\ sent = <<[prompt |-> "/help", attachments |-> <<>>]>>
  /\ dispatched = <<"/help">>
  /\ messages[1].role = "user" /\ messages[1].content = "/help"

\* ------------------------------------------------------------------ C19
\* The step is a handleSubmit call with the value v
Submitted(v) ==
  /\ Len(submits') = Len(submits) + 1
  /\ submits'[Len(submits')].value = v

\* Nothing dispatched or sent, no callback of the host called, flags as they were
NoOtherEffect ==
  /\ dispatched' = dispatched /\ sent' = sent /\ applied' = applied
  /\ isStreaming' = isStreaming /\ cancelRef' = cancelRef
  /\ SubSeq(submits', 1, Len(submits)) = submits
  /\ submits'[Len(submits')].pc = "returned"
  /\ submits'[Len(submits')].st = NoStream

\* C19: submit does nothing when the input is blank after trimming or the
\* streaming flag is set; when the controller is not ready, a non-blank submit
\* appends exactly one system error message and does nothing else: no dispatch,
\* no send, no user or assistant message, the input is kept and the streaming
\* flag is unchanged.
C19_GuardedSubmit ==
  [][\A v \in Inputs :
       Submitted(v) =>
         /\ (Trim(v) = <<>> \/ isStreaming) =>
              /\ submits'[Len(submits')].end = "noop"
              /\ messages' = messages /\ nextId' = nextId
              /\ input' = v
              /\ NoOtherEffect
         /\ (Trim(v) # <<>> /\ ~isStreaming /\ ~isReady) =>
              /\ submits'[Len(submits')].end = "not ready"
              /\ Len(messages') = Len(messages) + 1
              /\ SubSeq(messages', 1, Len(messages)) = messages
              /\ messages'[Len(messages')] =
                   Msg(nextId', "system",
                       IF copilotError # Undefined
                       THEN "Copilot error: " \o copilotError
                       ELSE "Copilot is not ready yet.",
                       "error")
              /\ input' = v
              /\ NoOtherEffect]_vars

C19_Witness ==
  /\ ~isReady /\ copilotError = "boom"
  /\ Len(submits) = 2
  /\ submits[1].value = <<" ", " ">> /\ submits[1].end = "noop"
  /\ submits[2].value = <<"h", "i">> /\ submits[2].end = "not ready"
  /\ Len(messages) = 1 /\ messages[1].content = "Copilot error: boom"
  /\ input = <<"h", "i">>

\* ------------------------------------------------------------------ C20
NoticeTypes ==
  {"tool.execution_start", "session.compaction_start",
   "session.compaction_complete", "session.truncation", "subagent.started",
   "subagent.completed", "subagent.failed"}

\* The events of the claim: a tool start counts when it names its tool
NoticeEvents ==
  {ev \in ResponseEvents :
     /\ ev.type \in NoticeTypes
     /\ ev.type = "tool.execution_start" => ev.content # Undefined}

AssistantIdx(i) == CHOOSE k \in DOMAIN messages : messages[k].id = submits[i].assistantId

\* messages' is messages with one new system message at position k
InsertedAt(k) ==
  /\ Len(messages') = Len(messages) + 1
  /\ SubSeq(messages', 1, k - 1) = SubSeq(messages, 1, k - 1)
  /\ SubSeq(messages', k + 1, Len(messages')) = SubSeq(messages, k, Len(messages))
  /\ messages'[k].role = "system"
  /\ \A j \in DOMAIN messages : messages[j].id < messages'[k].id

\* C20: while a response streams, each tool start with a tool name, compaction
\* start, compaction complete, truncation, subagent started, completed and
\* failed event inserts exactly one system message directly before the
\* placeholder assistant message, so that notices stand in arrival order above
\* the answer and never after it; when the assistant message is no longer in
\* the transcript the notice is appended at the end. A tool start without a
\* tool name inserts nothing.
C20_NoticesBeforeAnswer ==
  [][\A ev \in ResponseEvents :
       (SessionEmits(ev) /\ InFlight) =>
         IF ev \in NoticeEvents
         THEN IF HasAssistant(1)
              THEN /\ InsertedAt(AssistantIdx(1))
                   /\ messages'[AssistantIdx(1) + 1].id = submits[1].assistantId
                   /\ messages'[AssistantIdx(1) + 1].role = "assistant"
              ELSE InsertedAt(Len(messages) + 1)
         ELSE ev.type \in NoticeTypes => messages' = messages]_vars

C20_Witness ==
  /\ InFlight /\ Len(messages) = 4
  /\ messages[1].role = "user"
  /\ messages[2].content = "Calling tool: grep"
  /\ messages[3].content = "Agent failed: x -- boom"
  /\ messages[2].id < messages[3].id
  /\ messages[4].id = submits[1].assistantId /\ messages[4].isStreaming

\* ------------------------------------------------------------------ C21
\* The call whose handler the session reaches, if any
Subscribed == {i \in DOMAIN submits : submits[i].st.subscribed}

\* The assistant message as the callback of ev leaves it
SideUpdate(msg, ev) ==
  CASE ev.type = "assistant.usage" -> [msg EXCEPT !.usage = ev.content]
    [] ev.type = "assistant.reasoning_delta" ->
         [msg EXCEPT !.reasoning = (IF @ = Undefined THEN "" ELSE @) \o ev.content]
    [] ev.type = "assistant.turn_start" -> [msg EXCEPT !.turnPhase = "thinking"]
    [] ev.type = "assistant.turn_end" -> [msg EXCEPT !.turnPhase = Undefined]
    [] ev.type = "assistant.intent" -> [msg EXCEPT !.intent = ev.content]

\* C21: the usage, reasoning-delta, turn-start, turn-end and intent callbacks
\* change only the corresponding field of the placeholder assistant message of
\* the response that streams (usage replaced by the latest snapshot, reasoning
\* appended, turnPhase set or cleared, intent set); every other message, the
\* number of messages and their order stay as they were.
C21_SideChannelsOnlyOwnField ==
  [][\A ev \in SideChannelEvents :
       (ev.type \in SideEvents /\ SessionEmits(ev)) =>
         /\ Len(messages') = Len(messages)
         /\ \A i \in Subscribed :
              \A k \in DOMAIN messages :
                messages'[k] = IF messages[k].id = submits[i].assistantId
                               THEN SideUpdate(messages[k], ev)
                               ELSE messages[k]]_vars

C21_Witness ==
  /\ Len(messages) = 2 /\ messages[1].role = "user"
  /\ messages[2].isStreaming
  /\ messages[2].reasoning = "t1t2"
  /\ messages[2].usage = "t3"
  /\ messages[2].content = ""

\* ------------------------------------------------------------------ C22
FinishedAssistants ==
  {k \in DOMAIN messages : messages[k].role = "assistant" /\ ~messages[k].isStreaming}

\* C22: once an assistant message has isStreaming = false, after normal
\* completion or after failure, its content, usage, reasoning, turnPhase and
\* intent never change again, whatever the session emits afterwards and
\* whatever later submits do.
C22_FinishedIsFrozen ==
  [][\A k \in FinishedAssistants :
       /\ k \in DOMAIN messages'
       /\ messages'[k] = messages[k]]_vars

C22_Witness ==
  /\ Len(messages) = 4
  /\ messages[2].role = "assistant" /\ ~messages[2].isStreaming
  /\ messages[2].content = "t1" /\ messages[2].usage = Undefined
  /\ messages[4].role = "assistant" /\ messages[4].isStreaming
  /\ messages[4].usage = "t3"

\* ------------------------------------------------------------------ C23
\* The transcript is emptied by this step (in a response only clearMessages does)
Cleared == messages # <<>> /\ messages' = <<>>

\* C23: clearMessages empties the transcript; while a response streams it leaves
\* the streaming flag, the cancellation flag and the running adapter as they
\* are; later flushes and the completion update aim at an id that is gone and
\* do not bring the assistant message back, and later notices are appended at
\* the end of the transcript.
C23_ClearLeavesStream ==
  [][/\ Cleared =>
          /\ isStreaming' = isStreaming /\ cancelRef' = cancelRef
          /\ submits' = submits
     /\ (Len(submits) >= 1 /\ submits[1].assistantId # 0 /\ ~HasAssistant(1)) =>
          /\ ~HasAssistant(1)'
          /\ \A k \in DOMAIN messages' : messages'[k].role = "system"
          /\ \/ messages' = messages
             \/ messages' = <<>>
             \/ /\ Len(messages') = Len(messages) + 1
                /\ SubSeq(messages', 1, Len(messages)) = messages]_vars

C23_Witness ==
  /\ Len(submits) = 1 /\ submits[1].end = "ok" /\ submits[1].chunks = "t1"
  /\ ~HasAssistant(1)
  /\ Len(messages) = 1 /\ messages[1].content = "Calling tool: grep"
  /\ ~isStreaming

\* ------------------------------------------------------------------ C24
Escaping == ~cancelRef /\ cancelRef'

EscapeOnlyAsks ==
  Escaping =>
    /\ isStreaming /\ isStreaming'
    /\ submits' = submits
    /\ messages' = Append(messages,
                          Msg(nextId', "system", "Canceled current response.", "info"))
    /\ applied' = Append(applied, HostCall("session.abort", Undefined))
    /\ HasAssistant(1) => AssistantMsg(1).isStreaming /\ AssistantMsg(1)'.isStreaming

\* The loop of the response is handed the end of the sequence or an error
\* item: session.idle, session.error or the expiry of the idle timer
SignalObserved ==
  /\ submits[1].st.pc = "awaitNext"
  /\ submits[1].st.queue.resolved # <<>>
  /\ Head(submits[1].st.queue.resolved).type \in {"done", "error"}

SendRejected ==
  /\ submits[1].st.pc = "sending"
  /\ submits'[1].end = "error"
  /\ HasAssistant(1) => AssistantMsg(1)'.content = "Error: " \o SendError

StreamEnds ==
  \/ isStreaming /\ ~isStreaming'
  \/ HasAssistant(1) /\ AssistantMsg(1).isStreaming
       /\ HasAssistant(1)' /\ ~AssistantMsg(1)'.isStreaming

\* C24 as stated: after Escape the stream ends only when the adapter observes
\* session.idle, session.error or the expiry of the idle timer.
C24_Original ==
  [][/\ EscapeOnlyAsks
     /\ (cancelRef /\ StreamEnds) => SignalObserved]_vars

\* C24 (amended): Escape while a response streams sets the cancellation flag,
\* calls the session's abort and appends the "Canceled" notice, and does not
\* itself end the stream: the streaming flag stays true and the assistant
\* message stays isStreaming until the adapter observes session.idle or
\* session.error, the idle timer expires, or the pending session.send rejects.
C24_EscapeDoesNotEnd ==
  [][/\ EscapeOnlyAsks
     /\ (cancelRef /\ StreamEnds) => (SignalObserved \/ SendRejected)]_vars

C24_Witness ==
  /\ cancelRef /\ isStreaming
  /\ Len(submits) = 1 /\ submits[1].chunks = "t1"
  /\ Len(messages) = 3
  /\ messages[2].role = "assistant" /\ messages[2].isStreaming
  /\ messages[3].content = "Canceled current response."
  /\ applied = <<HostCall("session.abort", Undefined)>>

\* ------------------------------------------------------------------ C25
Returns(i) == submits[i].pc # "returned" /\ submits'[i].pc = "returned"

LastIsError ==
  /\ messages' # <<>>
  /\ messages'[Len(messages')].role = "system"
  /\ messages'[Len(messages')].kind = "error"

\* The streaming of call i fails: send rejected, session.error or idle timeout
StreamFails(i) == Returns(i) /\ submits'[i].end = "error"

\* The command of call i is refused: unknown name, bad syntax or arguments
CommandRefused(i) ==
  /\ submits'[i].end = "command" /\ submits'[i].outcome.kind = "error"
  /\ i \in DOMAIN submits => Returns(i)

\* The session asked for by the command of call i could not be created or resumed
CreationFails(i) ==
  /\ Returns(i) /\ CreatesSession(submits[i])
  /\ LastIsError

\* The next submit passes the guards of handleSubmit, once no command is
\* still busy creating a session
AcceptsSubmit ==
  /\ ~isStreaming
  /\ (\A j \in DOMAIN submits : ~CreatesSession(submits[j])) => isReady

\* C25: after a failure path (a refused command, a streaming failure by send
\* rejection, server error or idle timeout, a failed creation or resumption of
\* a session asked for by a command) a message is shown to the user and the
\* controller is ready again: the streaming flag is false and the next
\* non-blank submit is accepted.
\* The code does not keep this after a failed creation of a session: the status
\* stays 'error' and every later submit is answered with "Copilot error".
C25_FailureReturnsToReady ==
  [][\A i \in DOMAIN submits' :
       /\ (i \in DOMAIN submits /\ StreamFails(i)) =>
            /\ HasAssistant(i)' => AssistantMsg(i)'.kind = "error"
            /\ AcceptsSubmit'
       /\ CommandRefused(i) => LastIsError /\ AcceptsSubmit'
       /\ (i \in DOMAIN submits /\ CreationFails(i)) => AcceptsSubmit']_vars

\* ------------------------------------------------------------------ C26
\* How many of the first k mentions fs.stat found to be (ok) or not to be
\* attachable
CountUpTo(stats, k, ok) ==
  Cardinality({j \in 1..k : (stats[j] = "file") = ok})

\* The error string the claim expects for a mention that cannot be attached
ErrorFor(mention, stat) ==
  "@" \o mention \o
    (CASE stat = "missing" -> " was not found."
       [] stat = "directory" -> " is not a file."
       [] stat = "too large" -> " is too large.")

\* The k-th mention is the next attachment when it is a file within the cap
AttachedEach(mentions, stats, attachments) ==
  /\ Len(attachments) = CountUpTo(stats, Len(mentions), TRUE)
  /\ \A k \in DOMAIN mentions :
       stats[k] = "file" => attachments[CountUpTo(stats, k, TRUE)] = mentions[k]

\* One error string for every other mention, in order of appearance
ErrorsEach(mentions, stats) ==
  [j \in 1..CountUpTo(stats, Len(mentions), FALSE) |->
     LET k == CHOOSE k \in DOMAIN mentions :
                stats[k] # "file" /\ CountUpTo(stats, k, FALSE) = j
     IN ErrorFor(mentions[k], stats[k])]

\* C26: mention resolution is independent per mention: the attachments are
\* exactly the mentions that exist, are regular files and are within the size
\* cap, in order of appearance, with exactly one error string for every other
\* mention; in submit the errors are appended as one system error message and
\* the prompt is still sent, with the resolved attachments only.
C26_MentionsSettledEach ==
  [][Len(submits) = 1 =>
       \A stats \in [DOMAIN submits[1].mentions -> AllStats] :
         MentionsSettle(1, stats) =>
           LET mentions == submits[1].mentions
               user == messages'[Len(messages') - 1]
               errors == ErrorsEach(mentions, stats)
           IN /\ mentions = ExtractMentions(submits[1].escaped)
              /\ AttachedEach(mentions, stats, user.attachments)
              /\ Len(user.attachments) + Len(errors) = Len(mentions)
              /\ IF errors = <<>>
                 THEN Len(messages') = Len(messages) + 2
                 ELSE /\ Len(messages') = Len(messages) + 3
                      /\ messages'[Len(messages') - 2].role = "system"
                      /\ messages'[Len(messages') - 2].kind = "error"
                      /\ messages'[Len(messages') - 2].content = JoinLines(errors)
              /\ user.role = "user"
              /\ sent' = Append(sent, [prompt |-> Join(submits[1].escaped),
                                       attachments |-> user.attachments])
              /\ submits'[1].pc = "streaming"]_vars

C26_Witness ==
  /\ Len(submits) = 1 /\ submits[1].pc = "streaming"
  /\ submits[1].mentions = <<"a b", "c", "d">>
  /\ sent = <<[prompt |-> "@\"a b\" @c, @d.", attachments |-> <<"a b", "d">>]>>
  /\ Len(messages) = 3
  /\ messages[1].content = "@c is too large."
  /\ messages[2].attachments = <<"a b", "d">>

\* ------------------------------------------------------------------ C27
\* The command a call of runCommand selected, or Undefined
Selected ==
  LET parsed == ParseCommand(invoked.input) IN
    IF parsed.parsed /\ Matches(parsed.name) # {}
    THEN COMMANDS[Min(Matches(parsed.name))].name
    ELSE Undefined

\* The method of the client the selected command awaits inside a try block,
\* or Undefined
Awaited ==
  LET args == ParseCommand(invoked.input).args
      action == IF Len(args) >= 1 THEN Join(ToLowerCase(args[1])) ELSE Undefined
  IN CASE Selected = "ping" -> "ping"
       [] Selected = "session" /\ action = "list" -> "listSessions"
       [] Selected = "session" /\ action = "delete" /\ Len(args) >= 2 -> "deleteSession"
       [] OTHER -> Undefined

\* The operation of the command failed: there is no client, or the method
\* it awaits throws, rejects or is absent
OperationFailed ==
  /\ Awaited # Undefined
  /\ \/ invoked.context.client = NoClient
     \/ invoked.context.client[Awaited] # "ok"

\* The lines /status can obtain from this client and context
StateTexts == {"connected", "unknown", "[object Promise]"}

ObtainedAfter(state) ==
  LET context == invoked.context IN
    <<"Client state: " \o state>>
    \o (IF context.client.getStatus = "ok"
        THEN <<"Version: 1.0 (protocol: 2)">> ELSE <<>>)
    \o (IF context.client.getAuthStatus = "ok"
        THEN <<"Auth: Authenticated (user)">> ELSE <<>>)
    \o (IF context.session # Undefined
        THEN <<"Session: " \o context.session>> ELSE <<>>)
    \o <<"Model: " \o context.currentModel>>

\* C27: runCommand never rejects: whatever the client does (each of
\* listSessions, deleteSession, ping, getState, getStatus, getAuthStatus
\* working, throwing, rejecting or absent, or no client at all) the promise
\* resolves to an outcome; it is an error-kind message when the operation of
\* the command failed; and /status answers with the lines it could obtain,
\* leaving out the others.
C27_RunCommandNeverRejects ==
  invoked.fn = "runCommand" =>
    /\ returned.settled = "resolved"
    /\ OperationFailed =>
         returned.value.type = "message" /\ returned.value.kind = "error"
    /\ (Selected = "status" /\ invoked.context.client # NoClient) =>
         \E state \in StateTexts :
           returned.value = Message(JoinLines(ObtainedAfter(state)), Undefined)

\* ------------------------------------------------------------------ C28
\* The tokens after the slash of the input runCommand was given, or <<>>
\* when the trimmed input does not start with a slash
TokensAfterSlash ==
  LET trimmed == Trim(invoked.input) IN
    IF StartsWith(trimmed, <<"/">>) THEN TokenizeArgs(Slice(trimmed, 1)) ELSE <<>>

\* The first token after the slash, lower-cased
LoweredName == Join(ToLowerCase(Head(TokensAfterSlash)))

\* The registry entries whose name or one of whose aliases is the lowered name
Entries ==
  {k \in DOMAIN COMMANDS :
     COMMANDS[k].name = LoweredName \/ LoweredName \in COMMANDS[k].aliases}

\* C28: runCommand lower-cases the first token after the slash and runs the
\* first registry entry whose name or alias equals it, with the other
\* tokens as arguments; when no entry matches it resolves to the error-kind
\* message "Unknown command: /<name>. Try /help."; when the input does not
\* start with "/" or has no token after the slash it resolves to null.
C28_Dispatch ==
  invoked.fn = "runCommand" =>
    IF TokensAfterSlash = <<>>
    THEN returned = Resolved(NoOutcome)
    ELSE IF Entries = {}
    THEN returned =
           Resolved(Message("Unknown command: /" \o LoweredName \o ". Try /help.",
                            "error"))
    ELSE returned = RunOn(COMMANDS[Min(Entries)].name, Tail(TokensAfterSlash),
                          invoked.context)

\* "/Agents x" was given and the command of "/agent" answered
C28_Witness ==
  /\ invoked.fn = "runCommand"
  /\ invoked.input = <<"/", "A", "g", "e", "n", "t", "s", " ", "x">>
  /\ returned = RunOn("agent", <<<<"x">>>>, invoked.context)
  /\ returned.value.message = "No custom agents configured. ..."

\* ------------------------------------------------------------------ C29
\* The arguments of a call of runCommand that selected /reasoning
ReasoningCalled == invoked.fn = "runCommand" /\ Selected = "reasoning"

GivenLevel == Join(ToLowerCase(Tail(TokensAfterSlash)[1]))

\* C29: /reasoning with no argument resolves to a usage message that lists
\* the four levels; with a first argument that, lower-cased, is none of low,
\* medium, high, xhigh it resolves to an error-kind message that names the
\* value and lists the four levels, which is no outcome that replaces the
\* session and, applied by the controller, calls nothing on the host; with
\* a valid level it resolves to {type: 'set-reasoning-effort', effort}.
C29_Reasoning ==
  ReasoningCalled =>
    IF Len(TokensAfterSlash) = 1
    THEN returned =
           Resolved(Message("Usage: /reasoning [low|medium|high|xhigh]", Undefined))
    ELSE IF GivenLevel \notin {"low", "medium", "high", "xhigh"}
    THEN /\ returned =
              Resolved(Message("Invalid reasoning effort: " \o GivenLevel
                         \o ". Valid values: low, medium, high, xhigh", "error"))
         /\ returned.value.type \notin SessionOutcomes
         /\ ApplyOutcome(Chat, returned.value).applied = applied
    ELSE returned =
           Resolved(Outcome("set-reasoning-effort", Undefined, Undefined, GivenLevel))

\* "/reasoning turbo" was given and refused
C29_Witness ==
  /\ ReasoningCalled
  /\ Join(invoked.input) = "/reasoning turbo"
  /\ returned.value.kind = "error"
  /\ returned.value.message =
       "Invalid reasoning effort: turbo. Valid values: low, medium, high, xhigh"

\* ------------------------------------------------------------------ C30
\* A file was picked
FilePicked == invoked.fn = "applyPickerSelection"

\* The index of the '@' that begins the mention the pattern matched
MentionAt ==
  IF QuotedMatches(invoked.input) # {}
  THEN Min(QuotedMatches(invoked.input))
  ELSE Min(PlainMatches(invoked.input))

\* The open quote character of the matched mention, or Undefined
OpenQuote ==
  IF QuotedMatches(invoked.input) # {}
  THEN invoked.input[MentionAt + 1]
  ELSE Undefined

PickedPath == invoked.picker.items[invoked.pickerIndex]

\* The path as it is written into the input
Quoted ==
  IF OpenQuote # Undefined THEN <<OpenQuote>> \o PickedPath \o <<OpenQuote>>
  ELSE IF \E k \in DOMAIN PickedPath : IsSpace(PickedPath[k])
  THEN <<"\"">> \o PickedPath \o <<"\"">>
  ELSE PickedPath

\* C30: after a file pick the input is the text before the '@' that begins
\* the matched mention, then '@' and the picked path (in the open quote
\* character, or in double quotes when it contains whitespace), then one
\* space: the span from that '@' to the end of the input is replaced and
\* nothing else; and the picker is closed.
C30_FilePickSplices ==
  FilePicked =>
    /\ returned.input =
         SubSeq(invoked.input, 1, MentionAt) \o Quoted \o <<" ">>
    /\ returned.picker = ClosedPicker

\* ------------------------------------------------------------------ C35
\* The items the generator has not consumed yet: resolved to it, or buffered
Pending == queue.resolved \o queue.items

\* In the step nothing is added to them: they stay or lose their first
OnlyConsumed == Pending' = Pending \/ (Pending # <<>> /\ Pending' = Tail(Pending))

\* What the first signal says of the outcome
SignalledOutcome ==
  IF Head(Signals).type = "session.idle" THEN "ok" ELSE MessageOf(Head(Signals))

\* The call ended by what it took from the queue or by the rejection of send
EndedByItself == pc \in {"done", "failed"}

\* C35 as stated: the consumer observes the first terminal outcome signalled
\* (session.idle, session.error or the idle timeout), and every push after
\* it is discarded.
C35_Original ==
  [][/\ (Signals' # <<>> /\ EndedByItself') => result' = SignalledOutcome'
     /\ Signals # <<>> => OnlyConsumed]_vars

\* C35 as amended: once session.idle, session.error or the idle timeout has
\* been pushed, the queue is closed and every later push is discarded: the
\* items not yet consumed only shrink from the front. A call whose send was
\* acknowledged and which ends without the consumer leaving ends as the first
\* signal says (success for idle, failure with that error otherwise); when
\* send rejects, the call fails with the rejection whatever was signalled.
C35_FirstSignalWins ==
  [][/\ Signals' # <<>> => queue'.closed
     /\ Signals # <<>> => OnlyConsumed
     /\ (Signals' # <<>> /\ EndedByItself') =>
          result' = IF sendState' = "rejected" THEN SendError ELSE SignalledOutcome'
     /\ (EndedByItself' /\ sendState' # "rejected") => Signals' # <<>>]_vars

\* idle came first, an error and a delta after it, and the call succeeded
C35_Witness ==
  /\ pc = "done"
  /\ Len(Signals) = 2
  /\ Signals[1].type = "session.idle"
  /\ Signals[2].type = "session.error"
  /\ log[Len(log)].type = "assistant.message_delta"

\* ------------------------------------------------------------------ C40
\* The step accepted one item: the queue was open and the item is the newest
Accepted ==
  /\ ~queue.closed
  /\ Len(Pending') = Len(Pending) + 1
  /\ SubSeq(Pending', 1, Len(Pending)) = Pending

\* The step delivered the oldest item to the one next() call outstanding
Delivered ==
  /\ Pending # <<>>
  /\ Pending' = Tail(Pending)
  /\ queue.resolved = <<Head(Pending)>>
  /\ Head(Pending).type = "data" => yielded' = Append(yielded, Head(Pending).value)

\* C40: with the single consumer of streamResponse, the buffer and the waiter
\* list of the queue are never both non-empty, at most one next() call is
\* outstanding (waiting, or resolved and not yet taken), and the items leave
\* in the order they were accepted: a step either accepts one item at the
\* back of an open queue, delivers the oldest item to the outstanding next()
\* call, or leaves the items as they are, so no accepted item is handed out
\* twice, skipped or overtaken.
C40_QueueIsFifo ==
  [][/\ ~(queue'.items # <<>> /\ queue'.waiters > 0)
     /\ queue'.waiters + Len(queue'.resolved) <= 1
     /\ Accepted \/ Delivered \/ Pending' = Pending
     /\ yielded' # yielded => Delivered]_vars

\* Two chunks were buffered while send was pending; the first has been handed
\* to next() and yielded, the second is resolved to the following next()
C40_Witness ==
  /\ Len(yielded) = 1
  /\ Len(queue.resolved) = 1
  /\ queue.resolved[1].type = "data"
  /\ Len(queue.items) = 1
  /\ queue.items[1].type = "done"
  /\ yielded[1] # queue.resolved[1].value

\* ------------------------------------------------------------------ C34
\* The handler of the response has received session.idle or session.error:
\* the item it pushed is in the queue, not yet taken by the generator
TerminalQueued ==
  /\ Len(submits) = 1
  /\ submits[1].st.subscribed
  /\ \E item \in Range(submits[1].st.queue.resolved \o submits[1].st.queue.items) :
       \/ item.type = "done"
       \/ item.type = "error" /\ item.value # TimeoutMessage(options.idleTimeoutMs)

\* The text of the assistant messages, by id
AssistantTexts ==
  {<<messages[k].id, messages[k].content>> :
     k \in {j \in DOMAIN messages : messages[j].role = "assistant"}}

\* C34 as stated: once the handler has received session.idle or
\* session.error, no event received afterwards changes the transcript.
C34_Original ==
  [][\A ev \in ResponseEvents :
       (TerminalQueued /\ SessionEmits(ev)) => messages' = messages]_vars

\* C34 as amended: once the handler has received session.idle or
\* session.error, no event received afterwards adds text: the queue and the
\* chunks of the response stay as they were and the content of the assistant
\* message does not change. Until the generator has taken the terminal item
\* and unsubscribed (which it does not before session.send is acknowledged),
\* an event still reaches the callbacks: it may insert a notice before the
\* assistant message or move its turnPhase, and changes nothing else.
C34_NoTextAfterTerminal ==
  [][\A ev \in ResponseEvents :
       (TerminalQueued /\ SessionEmits(ev)) =>
         /\ submits'[1].st.queue = submits[1].st.queue
         /\ submits'[1].chunks = submits[1].chunks
         /\ submits'[1].chunkBuffer = submits[1].chunkBuffer
         /\ AssistantTexts' = AssistantTexts
         /\ \/ messages' = messages
            \/ /\ ev.type \in {"assistant.turn_start", "assistant.turn_end"}
               /\ \E k \in DOMAIN messages :
                    messages' = [messages EXCEPT ![k] = SideUpdate(@, ev)]
            \/ \E k \in DOMAIN messages' :
                 /\ messages'[k].role = "system"
                 /\ messages = SubSeq(messages', 1, k - 1)
                                 \o SubSeq(messages', k + 1, Len(messages'))]_vars

\* session.idle and a tool start were both received while send was pending:
\* the done item waits in the queue and the notice is in the transcript
C34_Witness ==
  /\ Len(submits) = 1
  /\ submits[1].st.pc = "sending"
  /\ submits[1].st.queue.items = <<DoneItem>>
  /\ nEmitted = 2
  /\ Len(messages) = 3
  /\ messages[2].role = "system"
  /\ messages[3].role = "assistant" /\ messages[3].content = ""

\* ------------------------------------------------------------------ C36
\* The text begins with one slash and no token follows the slash
BareSlash(t) ==
  /\ StartsWith(Trim(t), <<"/">>)
  /\ TokenizeArgs(Slice(Trim(t), 1)) = <<>>

\* C36: for an input that starts with "/" and has no token after the slash
\* runCommand resolves to null; when the controller is ready and idle, the
\* submit of it hands the trimmed text to command dispatch, which does not
\* handle it, and goes on as for an ordinary prompt: the user message with
\* that text and the streaming placeholder assistant message are appended
\* and the text is sent to the model.
C36_BareSlashIsPrompt ==
  [][\A v \in SlashInputs :
       (BareSlash(v) /\ isReady /\ submits = <<>> /\ Submit(v)) =>
         /\ RunCommandOn(v, ReadyContext) = Resolved(NoOutcome)
         /\ dispatched' = <<Join(Trim(v))>>
         /\ applied' = <<>>
         /\ sent' = <<[prompt |-> Join(Trim(v)), attachments |-> <<>>]>>
         /\ Len(messages') = 2
         /\ messages'[1].role = "user" /\ messages'[1].content = Join(Trim(v))
         /\ messages'[2].role = "assistant" /\ messages'[2].content = ""
         /\ messages'[2].isStreaming
         /\ isStreaming' /\ input' = <<>>
         /\ submits'[1].pc = "streaming"]_vars

\* "/" followed by an empty quoted string was sent and answered
C36_Witness ==
  /\ Len(submits) = 1
  /\ submits[1].value = <<"/", "\"", "\"">>
  /\ sent = <<[prompt |-> "/\"\"", attachments |-> <<>>]>>
  /\ Len(messages) = 2
  /\ messages[1].content = "/\"\""
  /\ messages[2].content = "t1" /\ ~messages[2].isStreaming

\* ---------------------------------------------------------------- C33
\* The input is one "/", not followed by a second, and then holds no blank
CommandPattern(t) ==
  /\ t # <<>> /\ t[1] = "/"
  /\ ~(Len(t) >= 2 /\ t[2] = "/")
  /\ \A k \in 2..Len(t) : ~IsSpace(t[k])

\* The input ends with a mention: an "@" at the start or after a blank, and
\* after it either no blank up to the end, or an open quote that is not closed
MentionPattern(t) ==
  \E i \in DOMAIN t :
    /\ t[i] = "@"
    /\ i = 1 \/ IsSpace(t[i - 1])
    /\ LET rest == Slice(t, i) IN
         \/ \A k \in DOMAIN rest : ~IsSpace(rest[k])
         \/ /\ rest # <<>> /\ rest[1] \in {"\"", "'"}
            /\ \A k \in 2..Len(rest) : rest[k] \notin {"\"", "'"}

\* C33: for every input, the command rule matches exactly the inputs made of
\* one "/" (not "//") and no blank after it, the file rule exactly the inputs
\* that end with a mention at the start or after a blank, no input matches
\* both, and the picker is opened in the mode of the rule that matched.
C33_DetectionExclusive ==
  invoked.fn = "updatePickerFromInput" =>
    LET t == invoked.input IN
      /\ FindActiveCommand(t).found <=> CommandPattern(t)
      /\ FindActiveMention(t).found <=> MentionPattern(t)
      /\ ~(FindActiveCommand(t).found /\ FindActiveMention(t).found)
      /\ returned.kind = "command" => CommandPattern(t)
      /\ returned.kind = "file" => MentionPattern(t)

\* The command picker was opened by "/a", and lists /agent
C33_Witness ==
  /\ invoked.fn = "updatePickerFromInput"
  /\ invoked.input = <<"/", "a">>
  /\ returned.kind = "command"
  /\ returned.items = <<Chars("agent")>>

\* ---------------------------------------------------------------- C31
\* Enter applies the selection of the command picker
CommandPicked ==
  /\ KeyReturnOnPicker
  /\ pickerContext.kind = "command"
  /\ ~pickerItems[pickerIndex + 1].disabled

\* The item selected when Enter is pressed, and "/" followed by its name
PickedItem == pickerItems[pickerIndex + 1]
PickedCommand == <<"/">> \o PickedItem.value

\* The usage holds a blank between two tokens
SeveralTokens(usage) ==
  \E i, k, j \in DOMAIN usage :
    i < k /\ k < j /\ ~IsSpace(usage[i]) /\ IsSpace(usage[k]) /\ ~IsSpace(usage[j])

\* The command the pick is awaiting settles
PickSettled == PickPending /\ returned'.settled # "pending"

\* The picker is closed after the step
ClosedAfter == pickerContext'.kind = "none" /\ pickerItems' = <<>>

\* C31 as stated: after the pick of a command whose usage has several tokens
\* the input is "/name " and the picker is open on commands, nothing being
\* run; after the pick of one whose usage has one token the command has been
\* run and the input is empty.
C31_Original ==
  [][CommandPicked =>
       IF SeveralTokens(PickedItem.usage)
       THEN /\ input' = PickedCommand \o <<" ">>
            /\ pickerContext'.kind = "command" /\ pickerItems' # <<>>
            /\ invoked'.command = Undefined
       ELSE /\ invoked'.command = Join(PickedItem.value)
            /\ input' = <<>>]_vars

\* C31, amended: after the pick of a command whose usage has several tokens
\* the input is "/name ", the picker is closed and will not open on that
\* input, and nothing is run; the pick of one whose usage has one token closes
\* the picker and gives "/name" to handleCommand at once, and the input is
\* cleared when handleCommand resolves to true: in the same step unless the
\* command awaits the client, and not at all when it rejects.
C31_CommandPick ==
  /\ [][CommandPicked =>
          /\ ClosedAfter
          /\ IF SeveralTokens(PickedItem.usage)
             THEN /\ input' = PickedCommand \o <<" ">>
                  /\ suppressPickerRef' = <<input'>>
                  /\ invoked'.command = Undefined
                  /\ returned' = Resolved(TRUE)
             ELSE /\ invoked'.command = Join(PickedItem.value)
                  /\ IF AwaitsClient(invoked'.command, <<>>)
                     THEN returned'.settled = "pending" /\ input' = input
                     ELSE returned' = Resolved(TRUE) /\ input' = <<>>]_vars
  /\ [][PickSettled =>
          IF returned'.settled = "resolved"
          THEN returned'.value /\ input' = <<>>
          ELSE returned'.settled = "rejected" /\ input' = input]_vars

\* /model was picked with "/m" in the input: the input is "/model ", the
\* picker is closed and nothing was run
C31_Witness ==
  /\ invoked.fn = "applyPickerSelection"
  /\ invoked.input = <<"/", "m">>
  /\ invoked.selected = Chars("model")
  /\ invoked.command = Undefined
  /\ input = <<"/", "m", "o", "d", "e", "l", " ">>
  /\ pickerContext.kind = "none"

\* ---------------------------------------------------------------- C32
\* Escape closes the picker, or Enter is given to the open picker: the steps
\* in which clearPicker records an input
Records == (KeyEscape /\ ~isModelPickerOpen) \/ KeyReturnOnPicker

\* The items the rules give for an input and a state of the file index
DetectedItems(t, files) ==
  IF FindActiveCommand(t).found
  THEN BuildCommandItems(FindActiveCommand(t).query, COMMAND_LIST)
  ELSE IF FindActiveMention(t).found
  THEN BuildFileItems(FindActiveMention(t).query, files.fileIndex,
                      files.isIndexing, files.fileIndexError)
  ELSE <<>>

\* The picker h is as the rules give it for its input: open on these items in
\* the mode of the rule that matched, closed when there is none
DetectedNormally(h) ==
  /\ h.pickerItems = DetectedItems(h.input, h.files)
  /\ h.pickerContext.kind =
       IF DetectedItems(h.input, h.files) = <<>> THEN "none"
       ELSE IF FindActiveCommand(h.input).found THEN "command" ELSE "file"

\* A remembered input is the input, and the picker is closed on it; with any
\* other input in the field the picker is as the rules give it
SuppressedOrDetected(h) ==
  (h.isReady /\ ~h.isStreaming /\ ~h.isModelPickerOpen) =>
    /\ h.suppressPickerRef # <<>> => h.suppressPickerRef = <<h.input>>
    /\ IF h.suppressPickerRef = <<h.input>>
       THEN h.pickerContext.kind = "none" /\ h.pickerItems = <<>>
       ELSE DetectedNormally(h)

\* The state of the picker after the step
HookAfter ==
  [input |-> input', isReady |-> isReady', isStreaming |-> isStreaming',
   isModelPickerOpen |-> isModelPickerOpen', pickerContext |-> pickerContext',
   pickerItems |-> pickerItems', pickerIndex |-> pickerIndex',
   suppressPickerRef |-> suppressPickerRef', files |-> fileIndexHook']

\* C32: a selection or an Escape that closed the picker leaves it closed once
\* the effect has seen the input it recorded; the recorded input is kept only
\* as long as it is the input, and with any other input in the field the
\* picker is as the rules give it, so a later change of the input is detected.
C32_SuppressedOnce ==
  /\ SuppressedOrDetected(Hook)
  /\ [][SuppressedOrDetected(HookAfter)]_vars
  /\ [][Records => ClosedAfter]_vars
  /\ [][(\E t \in TypedInputs : SetInput(t)) =>
          suppressPickerRef' = <<>> /\ DetectedNormally(HookAfter)]_vars

\* Escape closed the command picker on "/m": the picker stays closed although
\* the command rule matches the input, which is the one remembered
C32_Witness ==
  /\ input = <<"/", "m">>
  /\ suppressPickerRef = <<input>>
  /\ InputShown
  /\ pickerContext.kind = "none"
  /\ DetectedItems(input, fileIndexHook) # <<>>
  /\ invoked = NotInvoked

\* ---------------------------------------------------------------- C39
\* The index reached from currentIndex by d steps of delta, cyclically
Stepped(items, currentIndex, delta, d) ==
  (currentIndex + d * delta + d * Len(items)) % Len(items)

\* The nearest enabled item in the direction of delta, the current one being
\* the farthest; the current index when no item is enabled
NearestEnabled(items, currentIndex, delta) ==
  LET reach == {d \in 1..Len(items) :
                  ~items[Stepped(items, currentIndex, delta, d) + 1].disabled}
  IN IF reach = {} THEN currentIndex
     ELSE Stepped(items, currentIndex, delta, Min(reach))

\* The active index is within the list and, when an item is enabled, on one
OnEnabledItem(items, index) ==
  items # <<>> =>
    /\ index \in 0..(Len(items) - 1)
    /\ (\E k \in DOMAIN items : ~items[k].disabled) => ~items[index + 1].disabled

\* C39: an arrow key moves the active index to the nearest enabled item in its
\* direction, cyclically, and leaves it where it is when no item is enabled;
\* after every step, a change of the list included, the index is within the
\* list and on an enabled item if there is one; and what Enter applies is the
\* item at the index, which is enabled.
C39_SelectionOnEnabled ==
  /\ [][\A delta \in {-1, 1} :
          KeyArrow(delta) =>
            pickerIndex' = NearestEnabled(pickerItems, pickerIndex, delta)]_vars
  /\ [][OnEnabledItem(pickerItems', pickerIndex')]_vars
  /\ [][(KeyReturnOnPicker /\ HasSelectablePickerItems(Hook)) =>
          /\ ~pickerItems[pickerIndex + 1].disabled
          /\ invoked'.fn = "applyPickerSelection"
          /\ invoked'.selected = pickerItems[pickerIndex + 1].value]_vars

\* Down from the last item of a list whose first item is disabled: the index
\* went round to the second item
C39_Witness ==
  /\ Len(pickerItems) = 3
  /\ pickerItems[1].disabled /\ ~pickerItems[2].disabled /\ ~pickerItems[3].disabled
  /\ pickerIndex = 1
  /\ suppressPickerRef = <<>>

\* ---------------------------------------------------------------- C38
\* No two neighbours of the history are equal
NoRepeat == \A k \in 1..(Len(history) - 1) : history[k] # history[k + 1]

\* The history hook was called, and what it was called as
HistoryCalled(fn) == invoked # NotInvoked /\ invoked.fn = fn

\* Reverse of a sequence
Reverse(t) == [k \in DOMAIN t |-> t[Len(t) + 1 - k]]

\* As many navigateDown calls were made as navigateUp calls succeeded before
\* them, since the idle position
WalkedBack ==
  /\ HistoryCalled("navigateDown")
  /\ invoked.trail.ups # <<>>
  /\ Len(invoked.trail.downs) = Len(invoked.trail.ups)

\* C38: the history holds at most maxHistory entries and no two equal
\* neighbours; the index is -1 or an index of the history; navigateUp at the
\* oldest entry returns null and leaves the index; and k navigateDown calls
\* after k successful navigateUp calls from the idle position return the
\* entries passed on the way up, in reverse, and last the input given to the
\* first navigateUp, the index being -1 again.
C38_HistoryNavigation ==
  /\ [](Len(history) <= MaxHistory /\ NoRepeat)
  /\ [](historyIndex = -1 \/ historyIndex \in 0..(Len(history) - 1))
  /\ [][(\E currentInput \in HistoryInputs : NavigateUp(currentInput))
          /\ historyIndex = 0
        => returned'.value = <<>> /\ historyIndex' = 0]_vars
  /\ [](WalkedBack =>
          LET k == Len(invoked.trail.ups) IN
            /\ SubSeq(invoked.trail.downs, 1, k - 1)
                 = Reverse(SubSeq(invoked.trail.ups, 1, k - 1))
            /\ invoked.trail.downs[k] = invoked.trail.start
            /\ returned.value = <<invoked.trail.start>>
            /\ historyIndex = -1)

\* Three entries were walked up from the input " a" and down again: the last
\* navigateDown returned " a"
C38_Witness ==
  /\ WalkedBack
  /\ Len(invoked.trail.ups) = 3
  /\ invoked.trail.ups = <<<<"c">>, <<"b">>, <<"a">>>>
  /\ invoked.trail.downs = <<<<"b">>, <<"c">>, <<" ", "a">>>>
  /\ returned.value = <<<<" ", "a">>>>

\* ---------------------------------------------------------------- C37
\* The requests whose promise is still pending
Unresolved == {r \in DOMAIN permissions : permissions[r] = "pending"}

\* C37 as stated, in part: pendingPermission is non-null exactly while some
\* request of the SDK is unresolved.
C37_PendingWhileUnresolved ==
  pendingPermission # 0 <=> Unresolved # {}

\* C37 as stated, in part: a request that is unresolved can still be answered:
\* it is the one shown, or the one whose resolve the bridge holds.
C37_UnresolvedIsAnswerable ==
  \A r \in Unresolved : permissionResolverRef = r

====
